---- MODULE Spec2Model ----
(***************************************************************************)
(* Outreach bookkeeping of JobAutomationBot: the Google-sheet record store, *)
(* ingestion (run_extract_recruiters), and the two outreach runs            *)
(* (run_first_messages, run_followups) of job_automation_app.py and of      *)
(* recruiter_bot.py, together with the per-recipient messaging protocol     *)
(* (send_connection_message).                                               *)
(*                                                                          *)
(* Text is modelled as a sequence of one-character strings, so that         *)
(* str.lower, str.upper, str.strip, normalize_name, date.isoformat and      *)
(* date.fromisoformat are computed character by character.                  *)
(***************************************************************************)
EXTENDS Integers, Sequences, FiniteSets, TLC

(***************************************************************************)
(* Bounds of the model.                                                     *)
(***************************************************************************)
\* data rows the sheet may hold
MaxRows == 2
\* the setting DAILY_MAX_FIRST_MESSAGES the program is started with
DAILY_MAX_FIRST == 1
\* the setting DAILY_MAX_FOLLOWUPS the program is started with
DAILY_MAX_FOLLOWUPS == 1
\* largest days_wait the app's follow-up run is started with
MaxWait == 2
\* the ghost tallies (submitted, sentDay) stop counting here
MaxTally == 2
\* runs that may be stopped from outside
MaxInterrupts == 1
\* rows of a sheet that does not start empty
MaxSeedRows == 2
\* rows of the sheet an ingestion run starts from
MaxIngestSeedRows == 1
\* ingestion runs made one after another
MaxIngests == 2
\* job URLs one ingestion run reads
MaxUrls == 2
\* recruiters one job page yields
MaxRecs == 2
\* the limit shorten_for_note is called with
NoteLimit == 6
\* longest text shorten_for_note is called with
MaxNoteLen == 8
\* keyword arguments one update_row call is given
MaxKwargs == 2

(***************************************************************************)
(* Text: Python str as a sequence of characters.                            *)
(***************************************************************************)
UpperLetters == <<"A","B","C","D","E","F","G","H","I","J","K","L","M",
                  "N","O","P","Q","R","S","T","U","V","W","X","Y","Z">>

LowerLetters == <<"a","b","c","d","e","f","g","h","i","j","k","l","m",
                  "n","o","p","q","r","s","t","u","v","w","x","y","z">>

DigitChars == <<"0","1","2","3","4","5","6","7","8","9">>

IndexOf(seq, c) ==
    IF \E k \in 1..Len(seq) : seq[k] = c
    THEN CHOOSE k \in 1..Len(seq) : seq[k] = c
    ELSE 0

\* str.lower() on one character
LowerChar(c) ==
    IF IndexOf(UpperLetters, c) # 0 THEN LowerLetters[IndexOf(UpperLetters, c)] ELSE c

\* str.upper() on one character
UpperChar(c) ==
    IF IndexOf(LowerLetters, c) # 0 THEN UpperLetters[IndexOf(LowerLetters, c)] ELSE c

Lower(s) == [k \in 1..Len(s) |-> LowerChar(s[k])]

Upper(s) == [k \in 1..Len(s) |-> UpperChar(s[k])]

IsSpace(c) == c = " "

RECURSIVE LStrip(_)
LStrip(s) ==
    IF s # <<>> /\ IsSpace(Head(s)) THEN LStrip(Tail(s)) ELSE s

RECURSIVE RStrip(_)
RStrip(s) ==
    IF s # <<>> /\ IsSpace(s[Len(s)]) THEN RStrip(SubSeq(s, 1, Len(s) - 1)) ELSE s

\* str.strip()
Strip(s) == RStrip(LStrip(s))

T_dots == <<".",".",".">>

\* shorten_for_note that cuts without trimming the cut
shorten_for_note_NoTrim(text, limit) ==
    IF Len(Strip(text)) <= limit THEN Strip(text)
    ELSE SubSeq(Strip(text), 1, limit - 3) \o T_dots

\* shorten_for_note(text, limit)
shorten_for_note(text, limit) ==
    IF Len(Strip(text)) <= limit THEN Strip(text)
    ELSE RStrip(SubSeq(Strip(text), 1, limit - 3)) \o T_dots

\* " ".join(s.split()): runs of whitespace become one space, the ends are stripped
RECURSIVE Collapse(_)
Collapse(s) ==
    IF s = <<>> THEN <<>>
    ELSE IF IsSpace(Head(s)) /\ Tail(s) # <<>> /\ IsSpace(Head(Tail(s)))
         THEN Collapse(Tail(s))
         ELSE <<Head(s)>> \o Collapse(Tail(s))

\* Python's `sub in s` on str
Contains(sub, s) ==
    \E k \in 0..(Len(s) - Len(sub)) : SubSeq(s, k + 1, k + Len(sub)) = sub

\* int(c) for one decimal digit, -1 for any other character
DigitVal(c) == IndexOf(DigitChars, c) - 1

IsDigits(s) == s # <<>> /\ \A k \in 1..Len(s) : DigitVal(s[k]) >= 0

RECURSIVE DropZeros(_)
DropZeros(s) ==
    IF Len(s) > 1 /\ Head(s) = "0" THEN DropZeros(Tail(s)) ELSE s

(***************************************************************************)
(* Values of a record read from the sheet.  gspread's get_all_records       *)
(* numericises every cell: a cell holding only decimal digits arrives as a  *)
(* Python int, every other cell as a str.  num tells the two apart and text *)
(* is str(value).                                                           *)
(***************************************************************************)
PyStr(s) == [num |-> FALSE, text |-> s]

PyInt(s) == [num |-> TRUE, text |-> DropZeros(s)]

Numericise(s) == IF IsDigits(s) THEN PyInt(s) ELSE PyStr(s)

\* str(v)
StrOf(v) == v.text

\* bool(v) that takes every value for a true one
Truthy_Always(v) == TRUE

\* bool(v)
Truthy(v) == IF v.num THEN v.text # <<"0">> ELSE v.text # <<>>

(***************************************************************************)
(* Calendar dates: datetime.date as [y, m, d].                              *)
(***************************************************************************)
IsLeap(y) == (y % 4 = 0) /\ ((y % 100 # 0) \/ (y % 400 = 0))

DaysInMonth(y, m) ==
    IF m = 2 THEN (IF IsLeap(y) THEN 29 ELSE 28)
    ELSE IF m \in {4, 6, 9, 11} THEN 30 ELSE 31

RECURSIVE DaysBeforeMonth(_, _)
DaysBeforeMonth(y, m) ==
    IF m <= 1 THEN 0 ELSE DaysBeforeMonth(y, m - 1) + DaysInMonth(y, m - 1)

DaysBeforeYear(y) ==
    (y - 1) * 365 + ((y - 1) \div 4) - ((y - 1) \div 100) + ((y - 1) \div 400)

\* date.toordinal()
ToOrdinal(dte) == DaysBeforeYear(dte.y) + DaysBeforeMonth(dte.y, dte.m) + dte.d

\* the distance between two dates, whichever comes first
DaysBetween_Abs(a, b) ==
    IF ToOrdinal(a) >= ToOrdinal(b) THEN ToOrdinal(a) - ToOrdinal(b)
    ELSE ToOrdinal(b) - ToOrdinal(a)

\* (a - b).days
DaysBetween(a, b) == ToOrdinal(a) - ToOrdinal(b)

\* the date one calendar day after dte
NextDay(dte) ==
    IF dte.d < DaysInMonth(dte.y, dte.m) THEN [dte EXCEPT !.d = dte.d + 1]
    ELSE IF dte.m < 12 THEN [y |-> dte.y, m |-> dte.m + 1, d |-> 1]
    ELSE [y |-> dte.y + 1, m |-> 1, d |-> 1]

Pad2(n) == <<DigitChars[(n \div 10) + 1], DigitChars[(n % 10) + 1]>>

Pad4(n) == Pad2(n \div 100) \o Pad2(n % 100)

\* date.isoformat(): YYYY-MM-DD
IsoFormat(dte) == Pad4(dte.y) \o <<"-">> \o Pad2(dte.m) \o <<"-">> \o Pad2(dte.d)

Num2(s, k) == DigitVal(s[k]) * 10 + DigitVal(s[k + 1])

\* the text has the shape YYYY-MM-DD
IsoShaped(s) ==
    /\ Len(s) = 10
    /\ s[5] = "-" /\ s[8] = "-"
    /\ \A k \in {1, 2, 3, 4, 6, 7, 9, 10} : DigitVal(s[k]) >= 0

IsoFields(s) == [y |-> Num2(s, 1) * 100 + Num2(s, 3), m |-> Num2(s, 6), d |-> Num2(s, 9)]

\* date.fromisoformat(s) returns a date (otherwise it raises ValueError)
IsoValid(s) ==
    /\ IsoShaped(s)
    /\ IsoFields(s).y >= 1
    /\ IsoFields(s).m \in 1..12
    /\ IsoFields(s).d \in 1..DaysInMonth(IsoFields(s).y, IsoFields(s).m)

FromIsoFormat(s) == IsoFields(s)

(***************************************************************************)
(* The sheet.  Row 1 is the header; a data row is a sequence of text cells  *)
(* in header order.                                                         *)
(***************************************************************************)
Header == <<"recruiter_name", "job_title", "company", "linkedin_url", "status",
            "message1_sent", "message2_sent", "last_contacted", "notes", "job_url">>

Columns == {Header[k] : k \in 1..Len(Header)}

\* sheet.get_all_records(): one dict per row below the header
RecordOf(header, cells) ==
    [c \in {header[k] : k \in 1..Len(header)} |-> Numericise(cells[IndexOf(header, c)])]

get_rows(sh) == [j \in 1..(Len(sh) - 1) |-> RecordOf(sh[1], sh[j + 1])]

\* row.get(col, default)
Get(row, col, default) == IF col \in DOMAIN row THEN row[col] ELSE default

\* d[key] = value on a dict
SetKey(d, key, value) ==
    [c \in (DOMAIN d) \cup {key} |-> IF c = key THEN value ELSE d[c]]

\* sheet.update_cell(row_number, col_index, value)
update_cell(sh, row_number, col_index, value) ==
    IF row_number \in 1..Len(sh) /\ col_index \in 1..Len(sh[row_number])
    THEN [sh EXCEPT ![row_number][col_index] = value]
    ELSE sh

\* update_row that takes header.index(col_name) for the column number
UpdateRowCell_ZeroBased(sh, index, col_name, value) ==
    IF IndexOf(sh[1], col_name) # 0
    THEN update_cell(sh, index + 2, IndexOf(sh[1], col_name) - 1, value)
    ELSE sh

\* one iteration of update_row's loop: write one keyword argument
UpdateRowCell(sh, index, col_name, value) ==
    IF IndexOf(sh[1], col_name) # 0
    THEN update_cell(sh, index + 2, IndexOf(sh[1], col_name), value)
    ELSE sh

\* update_row whose loop ends at the first column the header does not have
RECURSIVE update_row_StopsAtUnknown(_, _, _)
update_row_StopsAtUnknown(sh, index, kwargs_) ==
    IF kwargs_ = <<>> THEN sh
    ELSE IF IndexOf(sh[1], kwargs_[1][1]) = 0 THEN sh
    ELSE update_row_StopsAtUnknown(UpdateRowCell(sh, index, kwargs_[1][1], kwargs_[1][2]),
                                   index, Tail(kwargs_))

\* update_row(sheet, index, **kwargs): kwargs_ is the sequence of the keyword
\* arguments <<col_name, value>> in the order given
RECURSIVE update_row(_, _, _)
update_row(sh, index, kwargs_) ==
    IF kwargs_ = <<>> THEN sh
    ELSE update_row(UpdateRowCell(sh, index, kwargs_[1][1], kwargs_[1][2]),
                    index, Tail(kwargs_))

(***************************************************************************)
(* Texts the program and the model's inputs use.                            *)
(***************************************************************************)
Empty == <<>>

T_pending == <<"p","e","n","d","i","n","g">>

T_connected == <<"c","o","n","n","e","c","t","e","d">>

T_unreachable == <<"u","n","r","e","a","c","h","a","b","l","e">>

T_TRUE == <<"T","R","U","E">>

T_YES == <<"Y","E","S">>

T_DataAnalyst == <<"D","a","t","a"," ","A","n","a","l","y","s","t">>

T_HiringTeam == <<"H","i","r","i","n","g"," ","T","e","a","m">>

T_notes == <<"A","u","t","o">>

\* the names send_connection_message exempts from verification
GenericNames == {<<"h","i","r","i","n","g"," ","t","e","a","m">>,
                 <<"t","a","l","e","n","t"," ","t","e","a","m">>,
                 <<"r","e","c","r","u","i","t","i","n","g"," ","t","e","a","m">>}

\* a recruiter's name as scraped, and another person's name
N_Ann == <<"A","n","n"," ","L","e","e">>

N_Bob == <<"B","o","b">>

\* profile links and job links (already cut at "?")
U_a == <<"i","n","/","a">>

U_b == <<"i","n","/","b">>

J_1 == <<"j","o","b","/","x">>

J_2 == <<"j","o","b","/","y">>

(***************************************************************************)
(* Ingestion: append_recruiter_row and run_extract_recruiters.              *)
(***************************************************************************)
\* append_recruiter_row(sheet, data) of job_automation_app.py
append_recruiter_row(sh, data) ==
    Append(sh, << Get(data, "recruiter_name", Empty),
                  Get(data, "job_title", Empty),
                  Get(data, "company", Empty),
                  Get(data, "linkedin_url", Empty),
                  T_pending,
                  Empty,
                  Empty,
                  Empty,
                  Get(data, "notes", Empty),
                  Get(data, "job_url", Empty) >>)

\* run_extract_recruiters that takes the sheet for empty
ColumnSet_Empty(recs, col) == {}

\* the two "existing" sets run_extract_recruiters builds from the sheet
ColumnSet(recs, col) ==
    {Strip(StrOf(Get(recs[j], col, PyStr(Empty)))) : j \in 1..Len(recs)} \ {Empty}

\* the inner loop that tests the job URL for every recruiter as well
RECURSIVE ExtractRecs_ChecksJob(_, _, _)
ExtractRecs_ChecksJob(st, url, recs) ==
    IF recs = <<>> THEN st
    ELSE LET rec == Head(recs)
             linkedin_url == Strip(Get(rec, "linkedin_url", Empty))
         IN  IF linkedin_url = Empty \/ linkedin_url \in st.links \/ url \in st.jobs
             THEN ExtractRecs_ChecksJob(st, url, Tail(recs))
             ELSE ExtractRecs_ChecksJob(
                    [sh    |-> append_recruiter_row(st.sh, SetKey(rec, "job_url", url)),
                     jobs  |-> st.jobs \cup {url},
                     links |-> st.links \cup {linkedin_url},
                     total |-> st.total + 1],
                    url, Tail(recs))

\* the inner loop over the recruiters scraped from one job page;
\* st = [sh, jobs, links, total]
RECURSIVE ExtractRecs(_, _, _)
ExtractRecs(st, url, recs) ==
    IF recs = <<>> THEN st
    ELSE LET rec == Head(recs)
             linkedin_url == Strip(Get(rec, "linkedin_url", Empty))
         IN  IF linkedin_url = Empty \/ linkedin_url \in st.links
             THEN ExtractRecs(st, url, Tail(recs))
             ELSE ExtractRecs(
                    [sh    |-> append_recruiter_row(st.sh, SetKey(rec, "job_url", url)),
                     jobs  |-> st.jobs \cup {url},
                     links |-> st.links \cup {linkedin_url},
                     total |-> st.total + 1],
                    url, Tail(recs))

\* the outer loop over the job URLs; scrape[url] tells whether
\* extract_recruiters_from_jobright raises (raises) and what it returns (recs)
RECURSIVE ExtractUrls(_, _, _)
ExtractUrls(st, urls, scrape) ==
    IF urls = <<>> THEN st
    ELSE LET url == Head(urls)
         IN  IF url \in st.jobs \/ scrape[url].raises
             THEN ExtractUrls(st, Tail(urls), scrape)
             ELSE ExtractUrls(ExtractRecs(st, url, scrape[url].recs), Tail(urls), scrape)

\* run_extract_recruiters: the sheet it leaves
run_extract_recruiters(sh, urls, scrape) ==
    IF urls = <<>> THEN sh
    ELSE ExtractUrls([sh    |-> sh,
                      jobs  |-> ColumnSet(get_rows(sh), "job_url"),
                      links |-> ColumnSet(get_rows(sh), "linkedin_url"),
                      total |-> 0],
                     urls, scrape).sh

(***************************************************************************)
(* Eligibility tests of the two runs.  A str method called on a numericised *)
(* cell raises AttributeError, date.fromisoformat on one raises TypeError;  *)
(* neither is caught by the runs.                                           *)
(***************************************************************************)
StatusOf(row) == Lower(StrOf(Get(row, "status", PyStr(Empty))))

M1Of(row) == Upper(StrOf(Get(row, "message1_sent", PyStr(Empty))))

M2Of(row) == Upper(StrOf(Get(row, "message2_sent", PyStr(Empty))))

LastOf(row) == Get(row, "last_contacted", PyStr(Empty))

\* run_first_messages without its test of message1_sent
FirstDecision_IgnoresFlag(row) ==
    IF Get(row, "status", PyStr(Empty)).num THEN "raise"
    ELSE IF StatusOf(row) = T_pending THEN "attempt"
    ELSE "skip"

\* run_first_messages that takes only TRUE for the flag of a sent message
FirstDecision_OnlyTRUE(row) ==
    IF Get(row, "status", PyStr(Empty)).num THEN "raise"
    ELSE IF StatusOf(row) = T_pending /\ M1Of(row) # T_TRUE THEN "attempt"
    ELSE "skip"

\* run_first_messages: "raise", "skip" or "attempt" for one row
FirstDecision(row) ==
    IF Get(row, "status", PyStr(Empty)).num THEN "raise"
    ELSE IF StatusOf(row) = T_pending /\ M1Of(row) \notin {T_TRUE, T_YES} THEN "attempt"
    ELSE "skip"

\* the guard of run_followups without its test of status
FollowupCandidate_AnyStatus(row) ==
    /\ M1Of(row) = T_TRUE
    /\ M2Of(row) # T_TRUE
    /\ Truthy(LastOf(row))

\* the guard in front of the date test of run_followups
FollowupCandidate(row) ==
    /\ StatusOf(row) \in {T_pending, T_connected}
    /\ M1Of(row) = T_TRUE
    /\ M2Of(row) # T_TRUE
    /\ Truthy(LastOf(row))

\* run_followups without its tests of message1_sent and last_contacted
FollowupDecision_NoM1(row, today_, days_wait_) ==
    IF Get(row, "status", PyStr(Empty)).num THEN "raise"
    ELSE IF StatusOf(row) \in {T_pending, T_connected} /\ M2Of(row) # T_TRUE THEN "attempt"
    ELSE "skip"

\* run_followups without its test of the days gone by
FollowupDecision_NoWait(row, today_, days_wait_) ==
    IF Get(row, "status", PyStr(Empty)).num THEN "raise"
    ELSE IF ~FollowupCandidate(row) THEN "skip"
    ELSE IF LastOf(row).num THEN "raise"
    ELSE IF ~IsoValid(LastOf(row).text) THEN "skip"
    ELSE "attempt"

\* run_followups: "raise", "skip" or "attempt" for one row
FollowupDecision(row, today_, days_wait_) ==
    IF Get(row, "status", PyStr(Empty)).num THEN "raise"
    ELSE IF ~FollowupCandidate(row) THEN "skip"
    ELSE IF LastOf(row).num THEN "raise"
    ELSE IF ~IsoValid(LastOf(row).text) THEN "skip"
    ELSE IF DaysBetween(today_, FromIsoFormat(LastOf(row).text)) >= days_wait_ THEN "attempt"
    ELSE "skip"

Decision(stage_, row, today_, days_wait_) ==
    IF stage_ = "first" THEN FirstDecision(row)
    ELSE FollowupDecision(row, today_, days_wait_)

(***************************************************************************)
(* The profile page a browser session shows: its h1 elements in document    *)
(* order and the text of its body.  WebElement.text of an element that is   *)
(* not displayed is the empty string.                                       *)
(***************************************************************************)
ElementText(el) == IF el.shown THEN el.text ELSE Empty

\* normalize_name
normalize_name(name) == Collapse(Strip(Lower(name)))

\* the name send_connection_message verifies: the first h1's text when there
\* is one and it is not empty, the sheet's recruiter_name otherwise
ExpectedName(row, page_) ==
    LET sheet_name == Strip(StrOf(Get(row, "recruiter_name", PyStr(Empty))))
        real_name  == IF page_.h1s = <<>> THEN Empty
                      ELSE Strip(ElementText(page_.h1s[1]))
    IN  IF real_name # Empty THEN real_name ELSE sheet_name

\* one poll of verify_profile_loaded: a displayed h1 holds the name
HeaderMatch(page_, expected_norm) ==
    \E k \in 1..Len(page_.h1s) :
        /\ page_.h1s[k].shown
        /\ expected_norm # Empty
        /\ Contains(expected_norm, normalize_name(page_.h1s[k].text))

\* ... or the lowercased body text holds it
BodyMatch(page_, expected_norm) == Contains(expected_norm, Lower(page_.body))

\* verify_profile_loaded that accepts every page
verify_profile_loaded_Always(page_, expected_name_) == TRUE

\* verify_profile_loaded(driver, expected_name) on a page that has settled
verify_profile_loaded(page_, expected_name_) ==
    IF expected_name_ = Empty THEN TRUE
    ELSE \/ HeaderMatch(page_, normalize_name(expected_name_))
         \/ BodyMatch(page_, normalize_name(expected_name_))

\* a safety check that lets every attempt go on
SafetyPassed_Unchecked(page_, expected_name_) == TRUE

\* the safety check of send_connection_message lets the attempt go on
SafetyPassed(page_, expected_name_) ==
    \/ Lower(expected_name_) \in GenericNames
    \/ verify_profile_loaded(page_, expected_name_)

\* verify_message_modal_recipient that accepts every thread
verify_message_modal_recipient_Always(headers, expected_name_) == TRUE

\* verify_message_modal_recipient: headers are the displayed texts of the
\* thread's header elements
verify_message_modal_recipient(headers, expected_name_) ==
    IF expected_name_ = Empty THEN TRUE
    ELSE \E k \in 1..Len(headers) :
            /\ headers[k].shown
            /\ normalize_name(expected_name_) # Empty
            /\ Contains(normalize_name(expected_name_), normalize_name(headers[k].text))

(***************************************************************************)
(* Channel discovery.  ui tells what the profile offers: ui.connect,        *)
(* ui.message, ui.follow (a displayed button of that kind), ui.note         *)
(* ("add_note", "editor" or "none": what clicking Connect brings up within  *)
(* the 8 polls), ui.connect_raises (the connect path raises).               *)
(* The result is [mode, clicks].                                            *)
(***************************************************************************)
\* MessageOrFollow that takes the follow button for a way to write
MessageOrFollow_FollowIsChannel(ui, clicks) ==
    IF ui.message THEN [mode |-> "message", clicks |-> clicks \cup {"message"}]
    ELSE IF ui.follow THEN [mode |-> "message", clicks |-> clicks \cup {"follow"}]
    ELSE [mode |-> "none", clicks |-> clicks]

MessageOrFollow(ui, clicks) ==
    IF ui.message THEN [mode |-> "message", clicks |-> clicks \cup {"message"}]
    ELSE IF ui.follow THEN [mode |-> "follow_only", clicks |-> clicks \cup {"follow"}]
    ELSE [mode |-> "none", clicks |-> clicks]

\* open_message_or_connect that goes on to the message button when Connect
\* brought up no note
open_message_or_connect_Fallback(ui) ==
    IF ui.connect
    THEN IF ui.connect_raises THEN MessageOrFollow(ui, {"connect"})
         ELSE IF ui.note = "add_note"
              THEN [mode |-> "note", clicks |-> {"connect", "add_note"}]
         ELSE IF ui.note = "editor"
              THEN [mode |-> "note", clicks |-> {"connect"}]
         ELSE MessageOrFollow(ui, {"connect"})
    ELSE MessageOrFollow(ui, {})

open_message_or_connect(ui) ==
    IF ui.connect
    THEN IF ui.connect_raises THEN MessageOrFollow(ui, {"connect"})
         ELSE IF ui.note = "add_note"
              THEN [mode |-> "note", clicks |-> {"connect", "add_note"}]
         ELSE IF ui.note = "editor"
              THEN [mode |-> "note", clicks |-> {"connect"}]
         ELSE [mode |-> "follow_only", clicks |-> {"connect"}]
    ELSE MessageOrFollow(ui, {})

(***************************************************************************)
(* send_message_in_modal.  modal tells what the compose surface shows:      *)
(* modal.headers, modal.editor (a displayed editor within 8 polls),         *)
(* modal.send (a displayed enabled send button).                            *)
(* The result is [ok, typed, submitted].                                    *)
(***************************************************************************)
send_message_in_modal(modal, expected_name_, skip_modal_check) ==
    IF ~skip_modal_check /\ ~verify_message_modal_recipient(modal.headers, expected_name_)
    THEN [ok |-> FALSE, typed |-> FALSE, submitted |-> FALSE]
    ELSE IF ~modal.editor
    THEN [ok |-> FALSE, typed |-> FALSE, submitted |-> FALSE]
    ELSE IF ~modal.send
    THEN [ok |-> FALSE, typed |-> TRUE, submitted |-> FALSE]
    ELSE [ok |-> TRUE, typed |-> TRUE, submitted |-> TRUE]

(***************************************************************************)
(* recruiter_bot.py's send_connection_message, which verifies nothing:      *)
(* bp tells what the page offers.  The result is [ok, submitted].           *)
(***************************************************************************)
BotSend(row, bp) ==
    IF ~Truthy(Get(row, "linkedin_url", PyStr(Empty)))
    THEN [ok |-> FALSE, submitted |-> FALSE]
    ELSE IF bp.connect /\ bp.textbox /\ bp.send
    THEN [ok |-> TRUE, submitted |-> TRUE]
    ELSE IF bp.message /\ bp.dialog
    THEN [ok |-> TRUE, submitted |-> TRUE]
    ELSE [ok |-> FALSE, submitted |-> FALSE]

\* writes that mark a row whose attempt was skipped or failed
AppWrites_MarksFalse(stage_, result_, today_) ==
    IF result_ = "false" THEN << <<"message1_sent", T_TRUE>> >>
    ELSE IF result_ = "sent"
    THEN << <<"message1_sent", T_TRUE>>,
            <<"last_contacted", IsoFormat(today_)>>,
            <<"status", T_connected>> >>
    ELSE << <<"message1_sent", T_TRUE>>, <<"status", T_unreachable>> >>

\* writes that leave last_contacted out when a first message was sent
AppWrites_Undated(stage_, result_, today_) ==
    IF result_ = "false" THEN <<>>
    ELSE IF result_ = "unreachable"
    THEN << <<(IF stage_ = "first" THEN "message1_sent" ELSE "message2_sent"), T_TRUE>>,
            <<"status", T_unreachable>> >>
    ELSE IF stage_ = "first"
    THEN << <<"message1_sent", T_TRUE>>, <<"status", T_connected>> >>
    ELSE << <<"message2_sent", T_TRUE>>, <<"last_contacted", IsoFormat(today_)>> >>

\* writes that date an unreachable row as well
AppWrites_DatesUnreachable(stage_, result_, today_) ==
    IF result_ = "false" THEN <<>>
    ELSE << <<(IF stage_ = "first" THEN "message1_sent" ELSE "message2_sent"), T_TRUE>>,
            <<"last_contacted", IsoFormat(today_)>>,
            <<"status", IF result_ = "sent" THEN T_connected ELSE T_unreachable>> >>

\* writes that record a result by the status alone
AppWrites_StatusOnly(stage_, result_, today_) ==
    IF result_ = "sent" THEN << <<"status", T_connected>> >>
    ELSE IF result_ = "unreachable" THEN << <<"status", T_unreachable>> >>
    ELSE <<>>

\* writes that take every run for a first-stage run
Writes_AsFirstStage(variant_, stage_, result_, today_) ==
    IF result_ = "sent"
    THEN << <<"message1_sent", T_TRUE>>,
            <<"last_contacted", IsoFormat(today_)>>,
            <<"status", T_connected>> >>
    ELSE IF result_ = "unreachable"
    THEN << <<"message1_sent", T_TRUE>>, <<"status", T_unreachable>> >>
    ELSE <<>>

(***************************************************************************)
(* The writes a run makes for an attempt's result, in the order of the      *)
(* keyword arguments of its update_row call.                                *)
(***************************************************************************)
AppWrites(stage_, result_, today_) ==
    IF stage_ = "first"
    THEN IF result_ = "sent"
         THEN << <<"message1_sent", T_TRUE>>,
                 <<"last_contacted", IsoFormat(today_)>>,
                 <<"status", T_connected>> >>
         ELSE IF result_ = "unreachable"
         THEN << <<"message1_sent", T_TRUE>>, <<"status", T_unreachable>> >>
         ELSE <<>>
    ELSE IF result_ = "sent"
         THEN << <<"message2_sent", T_TRUE>>, <<"last_contacted", IsoFormat(today_)>> >>
         ELSE IF result_ = "unreachable"
         THEN << <<"message2_sent", T_TRUE>>, <<"status", T_unreachable>> >>
         ELSE <<>>

BotWrites(stage_, result_, today_) ==
    IF result_ # "sent" THEN <<>>
    ELSE IF stage_ = "first"
    THEN << <<"message1_sent", T_TRUE>>, <<"last_contacted", IsoFormat(today_)>> >>
    ELSE << <<"message2_sent", T_TRUE>>, <<"last_contacted", IsoFormat(today_)>> >>

Writes(variant_, stage_, result_, today_) ==
    IF variant_ = "app" THEN AppWrites(stage_, result_, today_)
    ELSE BotWrites(stage_, result_, today_)

(***************************************************************************)
(* Inputs the environment supplies.                                         *)
(***************************************************************************)
H1(text, shown) == [text |-> text, shown |-> shown]

N_AnnLoud == <<"A","N","N"," "," ","L","E","E">>

B_mentionsAnn == <<"s","e","e"," ","a","n","n"," ","l","e","e">>

\* the h1 elements of a profile page
H1Choices == { <<>>,
               <<H1(N_Ann, TRUE)>>,
               <<H1(N_AnnLoud, TRUE)>>,
               <<H1(N_Bob, TRUE)>>,
               <<H1(T_HiringTeam, TRUE)>>,
               <<H1(N_Ann, FALSE)>>,
               <<H1(N_Bob, FALSE), H1(N_Ann, TRUE)>> }

Pages == [h1s : H1Choices, body : {Empty, B_mentionsAnn}]

NoPage == [h1s |-> <<>>, body |-> Empty]

UIs == [connect : BOOLEAN, connect_raises : BOOLEAN, note : {"add_note", "editor", "none"},
        message : BOOLEAN, follow : BOOLEAN]

Modals == [headers : { <<>>, <<H1(N_Ann, TRUE)>>, <<H1(N_Bob, TRUE)>> },
           editor : BOOLEAN, send : BOOLEAN]

BotPages == [connect : BOOLEAN, textbox : BOOLEAN, send : BOOLEAN,
             message : BOOLEAN, dialog : BOOLEAN]

\* what extract_recruiters_from_jobright can return for one recruiter link
Candidate(name, url) ==
    [recruiter_name |-> name, job_title |-> T_DataAnalyst, company |-> Empty,
     linkedin_url |-> url, notes |-> T_notes]

Candidates == { Candidate(N_Ann, U_a), Candidate(T_HiringTeam, U_b), Candidate(N_Ann, Empty) }

SeqsUpTo(S, n) == UNION { [1..k -> S] : k \in 0..n }

JobUrls == {J_1, J_2}

UrlLists == SeqsUpTo(JobUrls, MaxUrls) \ {<<>>}

\* what the job pages show while the outreach runs are studied
JobPages == { [u \in JobUrls |->
                 IF u = J_1 THEN [raises |-> FALSE, recs |-> <<Candidate(N_Ann, U_a)>>]
                 ELSE [raises |-> FALSE, recs |-> <<Candidate(T_HiringTeam, U_b)>>]] }

Stages == {"first", "followup"}

Variants == {"app", "bot"}

\* the program is used on three days: StartDate, the day after, and two days
\* after that (the calendar passes 29 February 2024 in between)
DayGaps == <<1, 2>>

StartDate == [y |-> 2024, m |-> 2, d |-> 27]

(***************************************************************************)
(* State.                                                                   *)
(***************************************************************************)
VARIABLES
    sheet,                \* the worksheet: header row, then data rows
    today,                \* dt.date.today()
    daysUsed,             \* how many times the clock has moved on
    pc,                   \* where the current run is
    variant,              \* "app": job_automation_app.py, "bot": recruiter_bot.py
    stage,                \* "first" or "followup"
    records,              \* the run's snapshot, get_rows(sheet) at its start
    i,                    \* the loop index (0-based)
    count,                \* the run's count
    days_wait,            \* the run's days_wait
    expected_name,        \* send_connection_message's expected_name
    page,                 \* the profile page the attempt verified
    mode,                 \* open_message_or_connect's result
    result,               \* send_connection_message's result
    kwargs,               \* the cell writes of update_row still to make
    acts,                 \* browser actions the current attempt has made
    ended,                \* how the last run ended
    attempted,            \* the indices the run has attempted, in order
    submitted,            \* per data row, the messages submitted for it per stage
    sentDay,              \* per stage, the successful sends made today
    interrupts,           \* how many runs have been stopped from outside
    lastIngest,           \* the input of the ingestion run under study
    call,                 \* a function call under study: its arguments and its return
    limits,               \* DAILY_MAX_FIRST and DAILY_MAX_FOLLOWUPS as read at import
    sentRun,              \* how many attempts of the run have had the outcome sent
    ing                   \* the rows a run_extract_recruiters in progress has yet to append

vars == << sheet, today, daysUsed, call, limits, ing, sentRun, pc, variant,
           stage, records, i, count, days_wait, expected_name, page, mode,
           result, kwargs, acts, ended, attempted, submitted, sentDay, interrupts, lastIngest >>

runVars == << variant, stage, records, days_wait >>

attemptVars == << expected_name, page, mode, result, kwargs, acts >>

ghostVars == << attempted, submitted, sentDay, sentRun, interrupts, lastIngest >>

\* the run's today: the clock does not pass midnight while a run is going on
runToday == today

Quota == limits[stage]

NumRows(sh) == Len(sh) - 1

NoSubmission == [first |-> 0, followup |-> 0]

NoIngest == [runs |-> 0, urls |-> <<>>, scrape |-> <<>>]

NoCall == [fn |-> "none", done |-> FALSE]

InitRun ==
    /\ today = StartDate
    /\ daysUsed = 0
    /\ pc = "idle"
    /\ variant = "app"
    /\ stage = "first"
    /\ records = <<>>
    /\ i = 0
    /\ count = 0
    /\ days_wait = 0
    /\ expected_name = Empty
    /\ page = NoPage
    /\ mode = "none"
    /\ result = "none"
    /\ kwargs = <<>>
    /\ acts = {}
    /\ ended = "done"
    /\ attempted = <<>>
    /\ submitted = [j \in 1..NumRows(sheet) |-> NoSubmission]
    /\ sentDay = NoSubmission
    /\ interrupts = 0
    /\ lastIngest = NoIngest
    /\ call = NoCall
    /\ sentRun = 0
    /\ ing = <<>>

\* the daily maxima when the environment does not set them otherwise
DefaultLimits == [first |-> DAILY_MAX_FIRST, followup |-> DAILY_MAX_FOLLOWUPS]

\* the sheet as created: a header and no rows
Init ==
    /\ sheet = <<Header>>
    /\ limits = DefaultLimits
    /\ InitRun

(***************************************************************************)
(* The runs.                                                                *)
(***************************************************************************)
\* a loop that goes through the snapshot from its end
Row_FromEnd == records[Len(records) - i]

Row == records[i + 1]

\* the run is over: its locals are gone
Ended(how) ==
    /\ pc' = "idle"
    /\ ended' = how
    /\ variant' = "app" /\ stage' = "first" /\ days_wait' = 0
    /\ records' = <<>> /\ i' = 0 /\ count' = 0 /\ attempted' = <<>>
    /\ expected_name' = Empty /\ page' = NoPage /\ mode' = "none"
    /\ result' = "none" /\ kwargs' = <<>> /\ acts' = {}
    /\ sentRun' = 0
    /\ UNCHANGED << sheet, today, daysUsed, call, limits, ing, submitted, sentDay, lastIngest >>

\* a run that would catch an exception and go on with the next row
EndRun_Continue(how) ==
    IF how = "error"
    THEN /\ pc' = "loop"
         /\ i' = i + 1
         /\ ended' = "error"
         /\ expected_name' = Empty /\ page' = NoPage /\ mode' = "none"
         /\ result' = "none" /\ kwargs' = <<>> /\ acts' = {}
         /\ UNCHANGED << sheet, today, daysUsed, call, limits, ing, runVars, count, attempted, submitted,
                         sentDay, sentRun, interrupts, lastIngest >>
    ELSE /\ Ended(how)
         /\ UNCHANGED interrupts

\* the run ends by its own doing: its loop ends or an exception leaves it
EndRun(how) ==
    /\ Ended(how)
    /\ UNCHANGED interrupts

\* run_first_messages / run_followups up to the loop: read the sheet, count = 0
StartRun(v, st, w) ==
    /\ pc = "idle"
    /\ pc' = "loop"
    /\ variant' = v
    /\ stage' = st
    /\ records' = get_rows(sheet)
    /\ i' = 0
    /\ count' = 0
    /\ days_wait' = w
    /\ ended' = "running"
    /\ attempted' = <<>>
    /\ sentRun' = 0
    /\ UNCHANGED << sheet, today, daysUsed, call, limits, ing, attemptVars, submitted, sentDay,
                    interrupts, lastIngest >>

\* the days_wait a run can be started with: the app's number input gives 1
\* or more, recruiter_bot.py always uses the default 3
StartAny ==
    \E v \in Variants, st \in Stages :
        \E w \in (IF st = "first" THEN {0} ELSE IF v = "app" THEN 1..MaxWait ELSE {3}) :
            StartRun(v, st, w)

\* the for loop has no row left
RunDone ==
    /\ pc = "loop"
    /\ i >= Len(records)
    /\ EndRun("done")

\* if count >= DAILY_MAX_...: break
QuotaReached ==
    /\ pc = "loop"
    /\ i < Len(records)
    /\ count >= Quota
    /\ EndRun("done")

\* a loop that breaks when count has passed the maximum
InLoop_Inclusive ==
    /\ pc = "loop"
    /\ i < Len(records)
    /\ count <= Quota

\* the loop without its test of count
InLoop_NoQuota ==
    /\ pc = "loop"
    /\ i < Len(records)

InLoop ==
    /\ pc = "loop"
    /\ i < Len(records)
    /\ count < Quota

\* the row is not attempted: it fails the stage's test (next iteration), or
\* reading it raises (the exception leaves the run)
SkipRow ==
    /\ InLoop
    /\ Decision(stage, Row, runToday, days_wait) # "attempt"
    /\ IF Decision(stage, Row, runToday, days_wait) = "raise"
       THEN EndRun("error")
       ELSE /\ i' = i + 1
            /\ UNCHANGED << sheet, today, daysUsed, call, limits, ing, pc, runVars, count, attemptVars, ended,
                            ghostVars >>

\* a ghost tally counts one more
Bump(n) == IF n < MaxTally THEN n + 1 ELSE n

Attempting(v) ==
    /\ InLoop
    /\ variant = v
    /\ Decision(stage, Row, runToday, days_wait) = "attempt"

\* the attempt is over with this result, and a failed one is counted as well
Resolve_CountsFailure(res, sub) ==
    /\ result' = res
    /\ kwargs' = Writes(variant, stage, res, runToday)
    /\ count' = IF res \in {"sent", "false"} THEN count + 1 ELSE count
    /\ sentDay' = IF res = "sent" THEN [sentDay EXCEPT ![stage] = Bump(@)] ELSE sentDay
    /\ sentRun' = IF res = "sent" THEN sentRun + 1 ELSE sentRun
    /\ submitted' = IF sub /\ (i + 1) \in DOMAIN submitted
                    THEN [submitted EXCEPT ![i + 1][stage] = Bump(@)]
                    ELSE submitted
    /\ pc' = "update"
    /\ expected_name' = Empty
    /\ UNCHANGED << sheet, today, daysUsed, call, limits, ing, runVars, i, ended, interrupts, lastIngest >>

\* the attempt is over with this result: count it and go on to update_row
Resolve(res, sub) ==
    /\ result' = res
    /\ kwargs' = Writes(variant, stage, res, runToday)
    /\ count' = IF res = "sent" THEN count + 1 ELSE count
    /\ sentDay' = IF res = "sent" THEN [sentDay EXCEPT ![stage] = Bump(@)] ELSE sentDay
    /\ sentRun' = IF res = "sent" THEN sentRun + 1 ELSE sentRun
    /\ submitted' = IF sub /\ (i + 1) \in DOMAIN submitted
                    THEN [submitted EXCEPT ![i + 1][stage] = Bump(@)]
                    ELSE submitted
    /\ pc' = "update"
    /\ expected_name' = Empty
    /\ UNCHANGED << sheet, today, daysUsed, call, limits, ing, runVars, i, ended, interrupts, lastIngest >>

\* the attempt goes on to the next step of the protocol
Proceed(to) ==
    /\ pc' = to
    /\ UNCHANGED << sheet, today, daysUsed, call, limits, ing, runVars, i, count, result, kwargs, ended,
                    submitted, sentDay, sentRun, interrupts, lastIngest >>

\* send_connection_message of job_automation_app.py, up to the safety check
AppAttempt ==
    /\ Attempting("app")
    /\ IF Get(Row, "recruiter_name", PyStr(Empty)).num
       THEN \* .strip() on an int raises
            EndRun("error")
       ELSE IF ~Truthy(Get(Row, "linkedin_url", PyStr(Empty)))
       THEN \* no LinkedIn URL
            /\ Resolve("unreachable", FALSE)
            /\ attempted' = Append(attempted, i)
            /\ UNCHANGED << page, mode, acts >>
       ELSE \/ \* driver.get raises
               EndRun("error")
            \/ \E pg \in Pages :
                 /\ acts' = {"get"}
                 /\ attempted' = Append(attempted, i)
                 /\ page' = pg
                 /\ mode' = mode
                 /\ IF SafetyPassed(pg, ExpectedName(Row, pg))
                    THEN /\ Proceed("discover")
                         /\ expected_name' = ExpectedName(Row, pg)
                    ELSE Resolve("false", FALSE)

\* open_message_or_connect and the choice of channel
Discover ==
    /\ pc = "discover"
    /\ \E ui \in UIs :
         LET r == open_message_or_connect(ui)
         IN  /\ mode' = r.mode
             /\ acts' = acts \cup r.clicks
             /\ IF r.mode \in {"note", "message"}
                THEN /\ Proceed("compose")
                     /\ UNCHANGED expected_name
                ELSE Resolve("unreachable", FALSE)
    /\ page' = NoPage
    /\ UNCHANGED attempted

\* send_message_in_modal
Compose ==
    /\ pc = "compose"
    /\ \/ \E modal \in Modals :
            LET r == send_message_in_modal(modal, expected_name, mode = "note")
            IN  /\ acts' = acts \cup (IF r.typed THEN {"type"} ELSE {})
                                \cup (IF r.submitted THEN {"submit"} ELSE {})
                /\ Resolve(IF r.ok THEN "sent" ELSE "false", r.submitted)
                /\ UNCHANGED << page, mode, attempted >>
       \/ \* a driver call raises before the send button is clicked
          EndRun("error")

\* send_connection_message of recruiter_bot.py
BotAttempt ==
    /\ Attempting("bot")
    /\ \/ \* driver.get raises
          /\ Truthy(Get(Row, "linkedin_url", PyStr(Empty)))
          /\ EndRun("error")
       \/ \E bp \in BotPages :
            LET r == BotSend(Row, bp)
            IN  /\ acts' = IF Truthy(Get(Row, "linkedin_url", PyStr(Empty)))
                           THEN {"get"} \cup (IF r.submitted THEN {"type", "submit"} ELSE {})
                           ELSE {}
                /\ Resolve(IF r.ok THEN "sent" ELSE "false", r.submitted)
                /\ attempted' = Append(attempted, i)
                /\ UNCHANGED << page, mode >>

\* one pass of update_row's loop: one cell written
UpdateCell ==
    /\ pc = "update"
    /\ kwargs # <<>>
    /\ sheet' = UpdateRowCell(sheet, i, kwargs[1][1], kwargs[1][2])
    /\ kwargs' = Tail(kwargs)
    /\ mode' = "none" /\ acts' = {}
    /\ UNCHANGED << today, daysUsed, call, limits, ing, pc, runVars, i, count, expected_name, page, result,
                    ended, ghostVars >>

\* a loop that stays on a row until its attempt no longer returns False
NextRow_Retry ==
    /\ pc = "update"
    /\ kwargs = <<>>
    /\ pc' = "loop"
    /\ i' = IF result = "false" THEN i ELSE i + 1
    /\ expected_name' = Empty /\ page' = NoPage /\ mode' = "none"
    /\ result' = "none" /\ acts' = {}
    /\ UNCHANGED << sheet, today, daysUsed, call, limits, ing, runVars, count, kwargs, ended, ghostVars >>

\* update_row has returned; random_delay; next iteration
NextRow ==
    /\ pc = "update"
    /\ kwargs = <<>>
    /\ pc' = "loop"
    /\ i' = i + 1
    /\ expected_name' = Empty /\ page' = NoPage /\ mode' = "none"
    /\ result' = "none" /\ acts' = {}
    /\ UNCHANGED << sheet, today, daysUsed, call, limits, ing, runVars, count, kwargs, ended, ghostVars >>

\* the run is stopped from outside, wherever it is
Interrupt ==
    /\ pc # "idle"
    /\ interrupts < MaxInterrupts
    /\ interrupts' = interrupts + 1
    /\ Ended("interrupted")

\* run_extract_recruiters on this URL file and these scrape results
IngestWith(urls, scrape) ==
    /\ pc = "idle"
    /\ sheet' = run_extract_recruiters(sheet, urls, scrape)
    /\ submitted' = [j \in 1..NumRows(run_extract_recruiters(sheet, urls, scrape)) |->
                       IF j \in DOMAIN submitted THEN submitted[j] ELSE NoSubmission]
    /\ UNCHANGED << today, daysUsed, call, limits, ing, pc, runVars, i, count, attemptVars, ended,
                    attempted, sentDay, sentRun, interrupts >>

\* run_extract_recruiters between outreach runs
Ingest ==
    /\ \E urls \in UrlLists, scrape \in JobPages :
         /\ NumRows(run_extract_recruiters(sheet, urls, scrape)) <= MaxRows
         /\ IngestWith(urls, scrape)
    /\ UNCHANGED lastIngest

\* midnight passes (between runs)
RECURSIVE AddDays(_, _)
AddDays(dte, n) == IF n = 0 THEN dte ELSE AddDays(NextDay(dte), n - 1)

AdvanceDay ==
    /\ pc = "idle"
    /\ daysUsed < Len(DayGaps)
    /\ daysUsed' = daysUsed + 1
    /\ today' = AddDays(today, DayGaps[daysUsed + 1])
    /\ sentDay' = NoSubmission
    /\ UNCHANGED << sheet, call, limits, ing, pc, runVars, i, count, attemptVars, ended, attempted,
                    submitted, sentRun, interrupts, lastIngest >>

RunNext ==
    \/ StartAny
    \/ RunDone
    \/ QuotaReached
    \/ SkipRow
    \/ AppAttempt
    \/ Discover
    \/ Compose
    \/ BotAttempt
    \/ UpdateCell
    \/ NextRow

Next ==
    \/ RunNext
    \/ Ingest
    \/ AdvanceDay

\* runs that are left to end by themselves, on a sheet that starts empty
Spec == Init /\ [][Next]_vars

\* a run of job_automation_app is started
StartApp ==
    \E st \in Stages :
        \E w \in (IF st = "first" THEN {0} ELSE 1..MaxWait) :
            StartRun("app", st, w)

\* the runs of job_automation_app, which may be stopped from outside
NextInterrupt ==
    \/ StartApp
    \/ RunDone
    \/ QuotaReached
    \/ SkipRow
    \/ AppAttempt
    \/ Discover
    \/ Compose
    \/ UpdateCell
    \/ NextRow
    \/ Ingest
    \/ AdvanceDay
    \/ Interrupt

SpecInterrupt == Init /\ [][NextInterrupt]_vars

(***************************************************************************)
(* A sheet with rows of any content (the sheet can be edited by hand).      *)
(***************************************************************************)
Seed(name, url, status, m1, m2, last) ==
    << name, T_DataAnalyst, Empty, url, status, m1, m2, last, T_notes, J_1 >>

T_Pending == <<"P","e","n","d","i","n","g">>

T_yes == <<"y","e","s">>

\* the day before StartDate
D_past == <<"2","0","2","4","-","0","2","-","2","6">>

\* a day after every day of the model
D_future == <<"2","0","2","4","-","0","3","-","0","9">>

\* no day of the calendar
D_invalid == <<"2","0","2","4","-","0","2","-","3","0">>

\* a date typed without dashes: the sheet hands it over as a number
D_number == <<"2","0","2","4","0","2","2","6">>

T_42 == <<"4","2">>

SeedRows == {
    Seed(N_Ann, U_a, T_connected, T_TRUE, Empty, D_past),
    Seed(N_Ann, U_a, T_connected, T_TRUE, Empty, D_future),
    Seed(N_Ann, U_a, T_connected, T_TRUE, Empty, D_invalid),
    Seed(N_Ann, U_a, T_connected, T_TRUE, Empty, D_number),
    Seed(N_Ann, U_a, T_Pending, Empty, T_yes, D_past),
    Seed(N_Ann, U_a, T_pending, T_yes, Empty, Empty),
    Seed(N_Ann, U_a, T_unreachable, T_TRUE, Empty, D_past),
    Seed(Empty, U_a, T_pending, Empty, Empty, Empty),
    Seed(N_Ann, Empty, T_pending, Empty, Empty, Empty),
    Seed(N_Ann, Empty, T_connected, T_TRUE, Empty, D_past),
    Seed(T_42, Empty, T_pending, Empty, Empty, Empty),
    Seed(T_42, U_a, T_pending, Empty, Empty, Empty),
    Seed(N_Ann, U_a, T_42, Empty, Empty, Empty) }

InitAny ==
    /\ \E rows \in SeqsUpTo(SeedRows, MaxSeedRows) : sheet = <<Header>> \o rows
    /\ limits = DefaultLimits
    /\ InitRun

NextAny ==
    \/ RunNext
    \/ AdvanceDay

SpecAny == InitAny /\ [][NextAny]_vars

(***************************************************************************)
(* The daily maxima are whatever integers the environment holds             *)
(* (DAILY_MAX_FIRST_MESSAGES, DAILY_MAX_FOLLOWUPS): zero and negative        *)
(* numbers as well.                                                         *)
(***************************************************************************)
\* the largest daily maximum studied
MaxQuota == 2

QuotaChoices == (0 - 1)..MaxQuota

\* rows a run of the first stage and a run of the follow-up stage attempt
QuotaSeedRows == {
    Seed(N_Ann, U_a, T_pending, Empty, Empty, Empty),
    Seed(N_Ann, U_a, T_connected, T_TRUE, Empty, D_past) }

InitQuota ==
    /\ \E rows \in SeqsUpTo(QuotaSeedRows, MaxSeedRows) : sheet = <<Header>> \o rows
    /\ limits \in [first : QuotaChoices, followup : QuotaChoices]
    /\ InitRun

NextQuota == RunNext

SpecQuota == InitQuota /\ [][NextQuota]_vars

(***************************************************************************)
(* run_extract_recruiters at work while an outreach run is going on (two    *)
(* processes on one sheet).  It reads the sheet once, decides from its own  *)
(* sets which rows to append, and appends them one append_row at a time;    *)
(* the appends fall between the steps of the outreach run.                  *)
(***************************************************************************)
\* an append that puts the new row right below the header
append_row_AtTop(sh, cells) == <<sh[1], cells>> \o Tail(sh)

\* Worksheet.append_row: the new row comes after the last row
append_row(sh, cells) == Append(sh, cells)

\* the rows run_extract_recruiters appends to the sheet it has read
ToAppend(sh, urls, scrape) ==
    SubSeq(run_extract_recruiters(sh, urls, scrape), Len(sh) + 1,
           Len(run_extract_recruiters(sh, urls, scrape)))

\* run_extract_recruiters starts: it reads the sheet and scrapes
IngestStart ==
    /\ ing = <<>>
    /\ \E urls \in UrlLists, scrape \in JobPages :
         /\ ToAppend(sheet, urls, scrape) # <<>>
         /\ NumRows(sheet) + Len(ToAppend(sheet, urls, scrape)) <= MaxRows
         /\ ing' = ToAppend(sheet, urls, scrape)
    /\ UNCHANGED << sheet, today, daysUsed, call, limits, pc, runVars, i, count, attemptVars,
                    ended, ghostVars >>

\* one append_recruiter_row of the ingestion in progress
IngestAppend ==
    /\ ing # <<>>
    /\ sheet' = append_row(sheet, Head(ing))
    /\ ing' = Tail(ing)
    /\ submitted' = [j \in 1..(NumRows(sheet) + 1) |->
                       IF j \in DOMAIN submitted THEN submitted[j] ELSE NoSubmission]
    /\ UNCHANGED << today, daysUsed, call, limits, pc, runVars, i, count, attemptVars, ended,
                    attempted, sentDay, sentRun, interrupts, lastIngest >>

NextConcurrent ==
    \/ StartApp
    \/ RunDone
    \/ QuotaReached
    \/ SkipRow
    \/ AppAttempt
    \/ Discover
    \/ Compose
    \/ UpdateCell
    \/ NextRow
    \/ IngestStart
    \/ IngestAppend
    \/ AdvanceDay

SpecConcurrent == Init /\ [][NextConcurrent]_vars

(***************************************************************************)
(* run_first_messages of job_automation_app started again and again on the  *)
(* same sheet.  A run that has started goes on to its end (the program is   *)
(* sequential and every wait in it is bounded), and after a run another one *)
(* is started.                                                              *)
(***************************************************************************)
RepeatSeedRows == {
    Seed(N_Ann, U_a, T_pending, Empty, Empty, Empty),
    Seed(N_Ann, Empty, T_pending, Empty, Empty, Empty),
    Seed(N_Ann, U_a, T_42, Empty, Empty, Empty) }

InitRepeat ==
    /\ \E rows \in SeqsUpTo(RepeatSeedRows, MaxSeedRows) : sheet = <<Header>> \o rows
    /\ limits = DefaultLimits
    /\ InitRun

StartFirst == StartRun("app", "first", 0)

\* the steps of a run that has started
RunSteps ==
    \/ RunDone
    \/ QuotaReached
    \/ SkipRow
    \/ AppAttempt
    \/ Discover
    \/ Compose
    \/ UpdateCell
    \/ NextRow

NextRepeat ==
    \/ StartFirst
    \/ RunSteps

SpecRepeat == InitRepeat /\ [][NextRepeat]_vars /\ WF_vars(StartFirst) /\ WF_vars(RunSteps)

(***************************************************************************)
(* Runs of both stages and both programs that go on once they have started: *)
(* every wait inside a step is bounded (verify_profile_loaded by its        *)
(* timeout, the polls for the note button and for the editor by 8 rounds,   *)
(* random_delay by its upper limit), so a step that can be taken is taken.  *)
(***************************************************************************)
RunStepsAny ==
    \/ RunSteps
    \/ BotAttempt

SpecTerminate == InitQuota /\ [][NextQuota]_vars /\ WF_vars(RunStepsAny)

(***************************************************************************)
(* Ingestion alone: run_extract_recruiters twice on the same input.         *)
(***************************************************************************)
U_a_padded == <<" ","i","n","/","a"," ">>

IngestSeed(url, job) ==
    << N_Bob, T_DataAnalyst, Empty, url, T_pending, Empty, Empty, Empty, T_notes, job >>

IngestSeedRows ==
    { IngestSeed(u, j) : u \in {Empty, U_a, U_b, U_a_padded}, j \in {Empty, J_1, J_2} }

IngestCandidates == Candidates \cup { Candidate(N_Bob, U_a_padded) }

IngestScrapes ==
    { [raises |-> TRUE, recs |-> <<>>] } \cup
    { [raises |-> FALSE, recs |-> r] : r \in SeqsUpTo(IngestCandidates, MaxRecs) }

InitIngest ==
    /\ \E rows \in SeqsUpTo(IngestSeedRows, MaxIngestSeedRows) : sheet = <<Header>> \o rows
    /\ limits = DefaultLimits
    /\ InitRun

\* the first run: any URL file, any scrape results
IngestFirst ==
    /\ lastIngest.runs = 0
    /\ \E urls \in UrlLists, scrape \in [JobUrls -> IngestScrapes] :
         /\ IngestWith(urls, scrape)
         /\ lastIngest' = [runs |-> 1, urls |-> urls, scrape |-> scrape]

\* the second run: the same URL file, the same scrape results
IngestAgain ==
    /\ lastIngest.runs = 1
    /\ IngestWith(lastIngest.urls, lastIngest.scrape)
    /\ lastIngest' = [lastIngest EXCEPT !.runs = 2]

NextIngest ==
    \/ IngestFirst
    \/ IngestAgain

SpecIngest == InitIngest /\ [][NextIngest]_vars

(***************************************************************************)
(* autofill_from_jobright.py: main reads job URLs from the terminal and     *)
(* appends every recruiter its scrapers return.                             *)
(***************************************************************************)
\* job URLs typed at the prompt: a JobRight job, a LinkedIn job, another site
A_jobright == <<"j","o","b","r","i","g","h","t",".","a","i","/","1">>

A_linkedin == <<"l","i","n","k","e","d","i","n",".","c","o","m","/","j","o","b","s","/","1">>

A_other == <<"x",".","i","o","/","1">>

T_jobright_ai == <<"j","o","b","r","i","g","h","t",".","a","i">>

T_linkedin_jobs == <<"l","i","n","k","e","d","i","n",".","c","o","m","/","j","o","b","s">>

\* a sheet row of fewer cells than the header reads as empty in the others
PadRow(cells, width) ==
    [k \in 1..width |-> IF k <= Len(cells) THEN cells[k] ELSE Empty]

\* append_recruiter_row(sheet, recruiter) of autofill_from_jobright.py: nine cells
autofill_append_recruiter_row(sh, recruiter) ==
    Append(sh, PadRow(<< Get(recruiter, "recruiter_name", Empty),
                         Get(recruiter, "job_title", Empty),
                         Get(recruiter, "company", Empty),
                         Get(recruiter, "linkedin_url", Empty),
                         T_pending,
                         Empty,
                         Empty,
                         Empty,
                         Get(recruiter, "notes", Empty) >>, Len(sh[1])))

\* for r in recs: append_recruiter_row(sheet, r)
RECURSIVE AutofillRecs(_, _)
AutofillRecs(sh, recs) ==
    IF recs = <<>> THEN sh
    ELSE AutofillRecs(autofill_append_recruiter_row(sh, Head(recs)), Tail(recs))

\* the loop of main over the URLs; pages[k] = [url, raises, recs] tells the
\* k-th URL typed, whether its scraper raises and what it returns
RECURSIVE AutofillUrls(_, _)
AutofillUrls(sh, pages) ==
    IF pages = <<>> THEN sh
    ELSE LET pg == Head(pages)
         IN  IF ~Contains(T_jobright_ai, pg.url) /\ ~Contains(T_linkedin_jobs, pg.url)
             THEN AutofillUrls(sh, Tail(pages))
             ELSE IF pg.raises
             THEN AutofillUrls(sh, Tail(pages))
             ELSE AutofillUrls(AutofillRecs(sh, pg.recs), Tail(pages))

\* main of autofill_from_jobright.py: the sheet it leaves
autofill_main(sh, pages) == AutofillUrls(sh, pages)

\* what the scrapers of autofill_from_jobright.py can return for one link
AutofillCandidates == { Candidate(N_Ann, U_a), Candidate(N_Bob, U_b) }

AutofillPages ==
    { [url |-> u, raises |-> TRUE, recs |-> <<>>] : u \in {A_jobright, A_linkedin, A_other} }
    \cup
    { [url |-> u, raises |-> FALSE, recs |-> r] :
        u \in {A_jobright, A_linkedin, A_other}, r \in SeqsUpTo(AutofillCandidates, MaxRecs) }

\* main of autofill_from_jobright.py on some URLs typed and some pages
AutofillMain ==
    /\ pc = "idle"
    /\ lastIngest.runs < MaxIngests
    /\ lastIngest' = [lastIngest EXCEPT !.runs = @ + 1]
    /\ \E pages \in SeqsUpTo(AutofillPages, MaxUrls) \ {<<>>} :
         /\ sheet' = autofill_main(sheet, pages)
         /\ submitted' = [j \in 1..NumRows(autofill_main(sheet, pages)) |->
                            IF j \in DOMAIN submitted THEN submitted[j] ELSE NoSubmission]
    /\ UNCHANGED << today, daysUsed, call, limits, ing, pc, runVars, i, count, attemptVars, ended,
                    attempted, sentDay, sentRun, interrupts >>

\* run_extract_recruiters on any URL file and any scrape results
IngestApp ==
    /\ lastIngest.runs < MaxIngests
    /\ lastIngest' = [lastIngest EXCEPT !.runs = @ + 1]
    /\ \E urls \in UrlLists, scrape \in [JobUrls -> IngestScrapes] :
         IngestWith(urls, scrape)

\* the two ingestion programs of the repository, on a sheet that starts empty
NextIngestAll ==
    \/ IngestApp
    \/ AutofillMain

SpecIngestAll == Init /\ [][NextIngestAll]_vars

(***************************************************************************)
(* The functions of the messaging protocol, called one at a time on inputs  *)
(* drawn from bounded sets.  call keeps the arguments and the return value  *)
(* of the latest call.                                                      *)
(***************************************************************************)
callFrame == << sheet, today, daysUsed, limits, ing, pc, runVars, i, count, attemptVars, ended,
                ghostVars >>

\* mode = open_message_or_connect(driver) on a profile that offers ui
Call_open_message_or_connect ==
    /\ \E ui \in UIs :
         call' = [fn |-> "open_message_or_connect", done |-> TRUE, ui |-> ui,
                  ret |-> open_message_or_connect(ui)]
    /\ UNCHANGED callFrame

\* the thread headers the compose surface may show
CallModals == [headers : { <<>>, <<H1(N_Ann, TRUE)>>, <<H1(N_Bob, TRUE)>>,
                           <<H1(N_Ann, FALSE)>>, <<H1(N_AnnLoud, TRUE)>> },
               editor : BOOLEAN, send : BOOLEAN]

\* the expected names send_connection_message may have arrived at
CallNames == { Empty, N_Ann, T_HiringTeam, <<" ">> }

\* send_connection_message's call of send_message_in_modal for the channel
\* open_message_or_connect returned
Call_send_message_in_modal ==
    /\ \E md \in {"note", "message"}, modal \in CallModals, name \in CallNames :
         call' = [fn |-> "send_message_in_modal", done |-> TRUE, mode |-> md,
                  modal |-> modal, expected_name |-> name,
                  ret |-> send_message_in_modal(modal, name, md = "note")]
    /\ UNCHANGED callFrame

\* the texts shorten_for_note is called with
NoteTexts == SeqsUpTo({"a", " "}, MaxNoteLen)

Call_shorten_for_note ==
    /\ \E text \in NoteTexts :
         call' = [fn |-> "shorten_for_note", done |-> TRUE, text |-> text,
                  limit |-> NoteLimit, ret |-> shorten_for_note(text, NoteLimit)]
    /\ UNCHANGED callFrame

\* the headers update_row meets: the app's, and the nine columns that
\* autofill_from_jobright.py writes (no job_url)
CallHeaders == { Header, SubSeq(Header, 1, 9) }

\* sheets of one or two rows under such a header
CallSheets ==
    { <<h>> \o [j \in 1..n |-> SubSeq(IngestSeed(IF j = 1 THEN U_a ELSE U_b, J_1), 1, Len(h))] :
        h \in CallHeaders, n \in 1..MaxRows }

\* keyword arguments: up to MaxKwargs different names, one of them no column
\* of any header
CallColumns == { "status", "message1_sent", "job_url", "bogus" }

CallKwargs ==
    { kw \in SeqsUpTo({ <<c, v>> : c \in CallColumns, v \in {T_TRUE} }, MaxKwargs) :
        \A a, b \in 1..Len(kw) : a # b => kw[a][1] # kw[b][1] }

Call_update_row ==
    /\ \E sh \in CallSheets, kw \in CallKwargs :
         \E index \in 0..(NumRows(sh) - 1) :
            call' = [fn |-> "update_row", done |-> TRUE, sheet |-> sh, index |-> index,
                     kwargs |-> kw, ret |-> update_row(sh, index, kw)]
    /\ UNCHANGED callFrame

NextCalls ==
    \/ Call_update_row
    \/ Call_open_message_or_connect
    \/ Call_send_message_in_modal
    \/ Call_shorten_for_note

SpecCalls == Init /\ [][NextCalls]_vars

(***************************************************************************)
(* The properties.                                                          *)
(***************************************************************************)
\* the text in column col of data row j (rows count from 1)
Cell(sh, j, col) == sh[j + 1][IndexOf(sh[1], col)]

\* the rows of the running run's snapshot
RunRows == 1..Len(records)

\* the status the run read for row j
StatusRead(j) == StrOf(Get(records[j], "status", PyStr(Empty)))

\* rows whose status the running run has turned into connected or unreachable
Transitioned ==
    { j \in RunRows : /\ Cell(sheet, j, "status") \in {T_connected, T_unreachable}
                      /\ Cell(sheet, j, "status") # StatusRead(j) }

\* rows the running run has recorded a sent message for: the first stage turns
\* the status into connected, the follow-up sets message2_sent and leaves the status
SentRows ==
    { j \in RunRows :
        IF stage = "first"
        THEN Cell(sheet, j, "status") = T_connected /\ StatusRead(j) # T_connected
        ELSE /\ Cell(sheet, j, "message2_sent") = T_TRUE
             /\ StrOf(Get(records[j], "message2_sent", PyStr(Empty))) # T_TRUE
             /\ Cell(sheet, j, "status") = StatusRead(j) }

AppRunning == pc # "idle" /\ variant = "app"

\* C1 as stated: in a run of job_automation_app the number of rows whose status
\* is turned into connected or unreachable is at most the quota.
C1_TransitionsWithinQuota == AppRunning => Cardinality(Transitioned) <= Quota

\* C1 amended: in a run of job_automation_app the number of rows a message is
\* recorded as sent for is at most the quota; rows marked unreachable do not count.
C1_SentWithinQuota == AppRunning => Cardinality(SentRows) <= Quota

\* a run that has used its whole quota on sent messages and has marked one more
\* row unreachable
C1_Witness ==
    /\ AppRunning
    /\ Cardinality(SentRows) = Quota
    /\ Cardinality(Transitioned \cup SentRows) > Quota

\* C2: over runs made one after another, every row has a first-stage message
\* submitted at most once and a follow-up message submitted at most once.
C2_AtMostOncePerStage ==
    \A j \in DOMAIN submitted : submitted[j].first <= 1 /\ submitted[j].followup <= 1

\* a row that got both messages, passed over by a later first-stage run
C2_Witness ==
    /\ pc = "loop"
    /\ stage = "first"
    /\ \E j \in DOMAIN submitted :
         /\ submitted[j].first = 1
         /\ submitted[j].followup = 1
         /\ j <= i
         /\ \A k \in 1..Len(attempted) : attempted[k] # j - 1

\* C3 as stated: the successful sends of all runs of one calendar day stay
\* within DAILY_MAX_FIRST for the first stage and DAILY_MAX_FOLLOWUPS for follow-ups.
C3_PerDayCap ==
    /\ sentDay.first <= DAILY_MAX_FIRST
    /\ sentDay.followup <= DAILY_MAX_FOLLOWUPS

\* C4: on a sheet filled by ingestion, after any ingestion and runs of either
\* program, no row has message2_sent TRUE while message1_sent is not TRUE.
C4_StageOrder ==
    \A j \in 1..NumRows(sheet) :
        Cell(sheet, j, "message2_sent") = T_TRUE => Cell(sheet, j, "message1_sent") = T_TRUE

\* a row that has its follow-up recorded
C4_Witness ==
    \E j \in 1..NumRows(sheet) :
        /\ Cell(sheet, j, "message2_sent") = T_TRUE
        /\ submitted[j].first = 1
        /\ submitted[j].followup = 1

\* row j (from 1) reads as unreachable
Unreachable(sh, j) == Lower(Cell(sh, j, "status")) = T_unreachable

\* C5: a row whose status is unreachable is not selected for an attempt by a
\* run that starts later, and no field of it changes any more.
C5_UnreachableIsTerminal ==
    /\ [](\A k \in 1..Len(attempted) :
            StatusOf(records[attempted[k] + 1]) # T_unreachable)
    /\ [][\A j \in 1..NumRows(sheet) :
            Unreachable(sheet, j) => sheet'[j + 1] = sheet[j + 1]]_vars

\* a follow-up run has passed a row it read as unreachable, otherwise due
C5_Witness ==
    /\ pc = "loop"
    /\ stage = "followup"
    /\ \E j \in RunRows :
         /\ j <= i
         /\ StatusOf(records[j]) = T_unreachable
         /\ M1Of(records[j]) = T_TRUE /\ M2Of(records[j]) # T_TRUE
         /\ ~LastOf(records[j]).num
         /\ IsoValid(LastOf(records[j]).text)
         /\ ToOrdinal(today) - ToOrdinal(FromIsoFormat(LastOf(records[j]).text)) >= days_wait

\* the row read as records[j] holds a valid date fewer than days_wait days back
TooRecent(j) ==
    /\ ~LastOf(records[j]).num
    /\ IsoValid(LastOf(records[j]).text)
    /\ ToOrdinal(today) - ToOrdinal(FromIsoFormat(LastOf(records[j]).text)) < days_wait

\* C6: a follow-up run with wait period days_wait >= 1 attempts no row whose
\* last_contacted is a valid date fewer than days_wait days before today, a date
\* in the future included.
C6_WaitEnforced ==
    (pc # "idle" /\ stage = "followup" /\ days_wait >= 1) =>
        \A k \in 1..Len(attempted) : ~TooRecent(attempted[k] + 1)

\* a follow-up run of job_automation_app has passed two rows that pass every
\* other test: one contacted too recently and one dated in the future
C6_Witness ==
    /\ AppRunning
    /\ pc = "loop"
    /\ stage = "followup"
    /\ attempted = <<>>
    /\ \E j1, j2 \in RunRows :
         /\ j1 <= i /\ j2 <= i
         /\ FollowupCandidate(records[j1]) /\ TooRecent(j1)
         /\ ToOrdinal(today) >= ToOrdinal(FromIsoFormat(LastOf(records[j1]).text))
         /\ FollowupCandidate(records[j2]) /\ TooRecent(j2)
         /\ ToOrdinal(today) < ToOrdinal(FromIsoFormat(LastOf(records[j2]).text))

\* the recruiter_name the run read for the row in hand
SheetName == Strip(StrOf(Get(Row, "recruiter_name", PyStr(Empty))))

\* C7 as stated: for a record whose name is not a generic placeholder,
\* send_connection_message reaches channel discovery only if the normalized
\* expected name is not empty and is part of the normalized text of a displayed
\* header of the page.
C7_HeaderGate ==
    (AppRunning /\ pc = "discover" /\ Lower(SheetName) \notin GenericNames) =>
        HeaderMatch(page, normalize_name(expected_name))

\* C7 amended: the expected name is the text of the page's first h1 when that is
\* not empty and the stored name otherwise; send_connection_message reaches
\* channel discovery only if that name is empty, or is a generic placeholder, or
\* in normalized form is part of the normalized text of a displayed h1 or of the
\* lowercased text of the page body; otherwise it returns False, nothing is
\* typed or submitted and the row is not written.
C7_SafetyGate ==
    /\ (AppRunning /\ pc = "discover") =>
          /\ expected_name = ExpectedName(Row, page)
          /\ \/ expected_name = Empty
             \/ Lower(expected_name) \in GenericNames
             \/ HeaderMatch(page, normalize_name(expected_name))
             \/ BodyMatch(page, normalize_name(expected_name))
    /\ (AppRunning /\ pc = "update" /\ result = "false" /\ acts = {"get"}) =>
          /\ kwargs = <<>>
          /\ ExpectedName(Row, page) # Empty
          /\ Lower(ExpectedName(Row, page)) \notin GenericNames
          /\ ~HeaderMatch(page, normalize_name(ExpectedName(Row, page)))
          /\ ~BodyMatch(page, normalize_name(ExpectedName(Row, page)))

\* channel discovery reached for a named recruiter on the body text alone: no
\* displayed header holds the name
C7_Witness ==
    /\ AppRunning
    /\ pc = "discover"
    /\ expected_name # Empty
    /\ Lower(expected_name) \notin GenericNames
    /\ ~HeaderMatch(page, normalize_name(expected_name))
    /\ BodyMatch(page, normalize_name(expected_name))

TrackingCols == <<"status", "message1_sent", "message2_sent", "last_contacted">>

\* the tracking fields of row j as the run read them, as the sheet holds them,
\* and as the writes for the attempt's result leave them
ReadTracking(j) ==
    [c \in 1..Len(TrackingCols) |-> StrOf(Get(records[j], TrackingCols[c], PyStr(Empty)))]

SheetTracking(j) == [c \in 1..Len(TrackingCols) |-> Cell(sheet, j, TrackingCols[c])]

PrescribedTracking(j) ==
    LET w == Writes(variant, stage, result, runToday)
    IN  [c \in 1..Len(TrackingCols) |->
            IF \E k \in 1..Len(w) : w[k][1] = TrackingCols[c]
            THEN w[CHOOSE k \in 1..Len(w) : w[k][1] = TrackingCols[c]][2]
            ELSE ReadTracking(j)[c]]

\* C8 as stated: a run stopped from outside while update_row is at work leaves
\* the tracking fields of the row either all as they were before the attempt or
\* all as the attempt's result prescribes.
C8_NoHalfWrittenRow ==
    [][(AppRunning /\ pc = "update" /\ ended' = "interrupted") =>
          \/ SheetTracking(i + 1) = ReadTracking(i + 1)
          \/ SheetTracking(i + 1) = PrescribedTracking(i + 1)]_vars

\* the step in which send_connection_message raises
RaiseStep ==
    /\ ended = "running"
    /\ ended' = "error"
    /\ \/ pc = "compose"
       \/ pc = "loop" /\ Decision(stage, Row, runToday, days_wait) = "attempt"

\* C9 as stated: when send_connection_message raises, the row is left as it
\* was and the run goes on with the next row.
C9_RunContinues ==
    [][RaiseStep => (sheet' = sheet /\ pc' = "loop" /\ i' = i + 1)]_vars

\* C9 amended: when send_connection_message raises, the row is left as it was
\* and the exception ends the run: no later row is attempted or written.
C9_RunEnds ==
    /\ [][RaiseStep => /\ sheet' = sheet
                       /\ get_rows(sheet)[i + 1] = records[i + 1]
                       /\ pc' = "idle"]_vars
    /\ [](ended = "error" => pc = "idle")

\* a run has ended on an exception with both rows still due for a first message
C9_Witness ==
    /\ ended = "error"
    /\ NumRows(sheet) = 2
    /\ \A j \in 1..2 : FirstDecision(get_rows(sheet)[j]) = "attempt"

\* C10: run_extract_recruiters appends no row whose linkedin_url is that of a
\* row of the sheet or of a row appended before it in the run, and a second
\* run on the same URLs and scrape results appends no row.
C10_IdempotentIngestion ==
    [][/\ \A k \in (NumRows(sheet) + 1)..NumRows(sheet') :
            \A j \in 1..(k - 1) :
                Cell(sheet', k, "linkedin_url") # Cell(sheet', j, "linkedin_url")
       /\ lastIngest.runs = 1 => sheet' = sheet]_vars

\* both runs are over; the first appended a row and met the same profile twice
\* on one job page
C10_Witness ==
    /\ lastIngest.runs = 2
    /\ NumRows(sheet) >= 2
    /\ \E k \in 1..Len(lastIngest.urls) :
         LET recs == lastIngest.scrape[lastIngest.urls[k]].recs
         IN  /\ Len(recs) = 2
             /\ recs[1].linkedin_url # Empty
             /\ recs[1].linkedin_url = recs[2].linkedin_url

\* C11 as stated: from an empty sheet, after any run_extract_recruiters and
\* autofill_from_jobright.main, no two rows hold the same non-empty linkedin_url.
C11_UniqueLinkedinUrl ==
    \A j, k \in 1..NumRows(sheet) :
        (j # k /\ Cell(sheet, j, "linkedin_url") # Empty) =>
            Cell(sheet, j, "linkedin_url") # Cell(sheet, k, "linkedin_url")

\* update_row has returned for the row in hand of a run of job_automation_app
Updated(st) == AppRunning /\ stage = st /\ pc = "update" /\ kwargs = <<>>

\* the tracking fields <<status, message1_sent, message2_sent, last_contacted>>
\* of row j hold these texts
TrackingIs(j, st, m1, m2, last) == SheetTracking(j) = <<st, m1, m2, last>>

\* C12: in run_first_messages the outcome sent leaves status connected,
\* message1_sent TRUE and last_contacted today; the outcome unreachable leaves
\* status unreachable, message1_sent TRUE and last_contacted as it was;
\* message2_sent stays as it was in both.
C12_FirstStageTable ==
    Updated("first") =>
        /\ result = "sent" =>
             TrackingIs(i + 1, T_connected, T_TRUE, ReadTracking(i + 1)[3], IsoFormat(today))
        /\ result = "unreachable" =>
             TrackingIs(i + 1, T_unreachable, T_TRUE, ReadTracking(i + 1)[3],
                        ReadTracking(i + 1)[4])

\* a first-stage run has marked its first row unreachable and has recorded a
\* sent message for its second, which held an older date and a message2_sent text
C12_Witness ==
    /\ Updated("first")
    /\ i = 1
    /\ result = "sent"
    /\ ReadTracking(2)[3] # Empty
    /\ ReadTracking(2)[4] \notin {Empty, IsoFormat(today)}
    /\ ReadTracking(1)[1] # T_unreachable
    /\ Cell(sheet, 1, "status") = T_unreachable

\* C13: in run_followups the outcome sent leaves message2_sent TRUE and
\* last_contacted today with the status as it was; the outcome unreachable
\* leaves message2_sent TRUE and status unreachable with last_contacted as it
\* was; message1_sent stays as it was in both.
C13_FollowupTable ==
    Updated("followup") =>
        /\ result = "sent" =>
             TrackingIs(i + 1, ReadTracking(i + 1)[1], ReadTracking(i + 1)[2], T_TRUE,
                        IsoFormat(today))
        /\ result = "unreachable" =>
             TrackingIs(i + 1, T_unreachable, ReadTracking(i + 1)[2], T_TRUE,
                        ReadTracking(i + 1)[4])

\* a follow-up run has marked its first row unreachable and has recorded a
\* sent follow-up for its second, a connected row contacted on an earlier day
C13_Witness ==
    /\ Updated("followup")
    /\ i = 1
    /\ result = "sent"
    /\ ReadTracking(2)[1] = T_connected
    /\ ReadTracking(2)[4] # IsoFormat(today)
    /\ ReadTracking(1)[1] # T_unreachable
    /\ Cell(sheet, 1, "status") = T_unreachable
    /\ Cell(sheet, 1, "message2_sent") = T_TRUE

\* send_connection_message has returned False from its safety check: the page
\* was opened and nothing else was done
SafetyBlocked ==
    AppRunning /\ pc = "update" /\ result = "false" /\ acts = {"get"}

\* C14: when the safety check fails for a row, no cell of the row is written,
\* count is not incremented, the run goes on with the next row, and the row
\* still passes the stage's test.
C14_SafetySkipLeavesRow ==
    /\ [](SafetyBlocked =>
            /\ kwargs = <<>>
            /\ get_rows(sheet)[i + 1] = records[i + 1]
            /\ Decision(stage, get_rows(sheet)[i + 1], today, days_wait) = "attempt")
    /\ [][(SafetyBlocked' /\ pc = "loop") => (count' = count /\ sheet' = sheet)]_vars
    /\ [][SafetyBlocked =>
            (sheet' = sheet /\ count' = count /\ pc' = "loop" /\ i' = i + 1)]_vars

\* the safety check has failed for both rows of a run, which has used no quota
C14_Witness ==
    /\ SafetyBlocked
    /\ attempted = <<0, 1>>
    /\ count = 0

(***************************************************************************)
(* Channel discovery and text entry, call by call.                          *)
(***************************************************************************)
\* the latest call was of fn and has returned
Called(fn) == call.done /\ call.fn = fn

\* Connect was displayed, clicking it went through, and neither "Add a note"
\* nor an editor came up within the polls
ConnectWithoutNote(ui) == ui.connect /\ ~ui.connect_raises /\ ui.note = "none"

\* C15 as stated: when a connect action is present but invoking it yields
\* neither an add-note affordance nor an open editor, and a message action is
\* present, the message action is invoked and the chosen channel is message.
C15_FallbackToMessage ==
    (Called("open_message_or_connect") /\ ConnectWithoutNote(call.ui) /\ call.ui.message)
        => (call.ret.mode = "message" /\ "message" \in call.ret.clicks)

\* C15 as the code has it: after a Connect click that brings up no note,
\* open_message_or_connect returns follow_only having invoked neither the
\* message nor the follow action, whether or not a message action is present;
\* the message action is invoked, and the channel is message, exactly when a
\* message action is present and no connect action is displayed or the
\* connect path raised.
C15_NoFallbackAfterConnect ==
    Called("open_message_or_connect") =>
        /\ ConnectWithoutNote(call.ui) =>
              (call.ret.mode = "follow_only" /\ call.ret.clicks = {"connect"})
        /\ (call.ret.mode = "message") <=>
              (call.ui.message /\ (~call.ui.connect \/ call.ui.connect_raises))
        /\ (call.ret.mode = "message") <=> ("message" \in call.ret.clicks)

C15_Witness ==
    /\ Called("open_message_or_connect")
    /\ ConnectWithoutNote(call.ui)
    /\ call.ui.message
    /\ call.ret.mode = "follow_only"

(***************************************************************************)
(* Attempts that find no channel.                                           *)
(***************************************************************************)
\* open_message_or_connect returns in this step without the note or the
\* message channel
DiscoveryFindsNoChannel == pc = "discover" /\ mode' \in {"follow_only", "none"}

\* the attempt has clicked something that opens a text box or sends
Wrote == acts \cap {"add_note", "message", "type", "submit"} # {}

\* C16: whenever channel discovery ends with neither the note nor the message
\* channel, send_connection_message returns UNREACHABLE without typing or
\* submitting anything; an attempt that invoked the follow action is never
\* reported as sent.
C16_NoChannelIsUnreachable ==
    /\ [][DiscoveryFindsNoChannel =>
            /\ pc' = "update"
            /\ result' = "unreachable"
            /\ acts' \cap {"type", "submit"} = {}]_vars
    /\ []((AppRunning /\ "follow" \in acts) =>
            /\ result = "unreachable"
            /\ mode = "follow_only"
            /\ ~Wrote)
    /\ []((AppRunning /\ result = "sent") => "follow" \notin acts)

C16_Witness ==
    /\ AppRunning
    /\ pc = "update"
    /\ mode = "follow_only"
    /\ acts = {"get", "follow"}
    /\ result = "unreachable"

(***************************************************************************)
(* Rows without a profile address.                                          *)
(***************************************************************************)
\* the run's row j was read with an empty linkedin_url
EmptyUrl(j) == StrOf(Get(records[j], "linkedin_url", PyStr(Empty))) = Empty

\* send_connection_message is about to be called for a row with an empty
\* linkedin_url
EmptyUrlAttempt ==
    /\ AppRunning
    /\ InLoop
    /\ Decision(stage, Row, runToday, days_wait) = "attempt"
    /\ EmptyUrl(i + 1)

\* the stage flag of row j in the sheet
StageFlag(j) ==
    Cell(sheet, j, IF stage = "first" THEN "message1_sent" ELSE "message2_sent")

HeaderShowsName(headers, name) ==
    \E k \in 1..Len(headers) :
        /\ headers[k].shown
        /\ normalize_name(name) # Empty
        /\ Contains(normalize_name(name), normalize_name(headers[k].text))

\* the call typed the text or clicked the send button
Entered(ret) == ret.typed \/ ret.submitted

\* what send_message_in_modal does once the recipient check is behind it
EntersByEditor(modal, ret) ==
    /\ ret.typed = modal.editor
    /\ ret.submitted = (modal.editor /\ modal.send)
    /\ ret.ok = ret.submitted

ComposeFails == AppRunning /\ pc = "compose" /\ result' = "false"

\* send_connection_message has returned False after a channel was opened
ComposeFailed ==
    /\ AppRunning
    /\ pc = "update"
    /\ result = "false"
    /\ acts \cap {"connect", "message"} # {}

\* C19: when send_message_in_modal finds no editor or no send button the
\* attempt's result is False; the row is not written, count is not
\* incremented, the run goes on with the next row, and no row is attempted
\* twice in a run.
C19_SubmissionFailureRecoverable ==
    /\ [][ComposeFails =>
            /\ pc' = "update"
            /\ kwargs' = <<>>
            /\ "submit" \notin acts'
            /\ sheet' = sheet
            /\ count' = count
            /\ ended' = ended]_vars
    /\ [][ComposeFailed =>
            /\ sheet' = sheet
            /\ count' = count
            /\ pc' = "loop"
            /\ i' = i + 1]_vars
    /\ [](ComposeFailed => get_rows(sheet)[i + 1] = records[i + 1])
    /\ [](\A a, b \in 1..Len(attempted) : a < b => attempted[a] < attempted[b])

\* the first row's attempt failed and left it due; the run went on to the
\* second row, typed its text and found no send button
C19_Witness ==
    /\ ComposeFailed
    /\ attempted = <<0, 1>>
    /\ count = 0
    /\ "type" \in acts
    /\ "submit" \notin acts
    /\ Decision(stage, get_rows(sheet)[1], runToday, days_wait) = "attempt"
    /\ Decision(stage, get_rows(sheet)[2], runToday, days_wait) = "attempt"

(***************************************************************************)
(* The note's length.                                                       *)
(***************************************************************************)
\* C20 as stated: for every text longer than the ceiling shorten_for_note
\* returns the first ceiling-3 characters followed by '...', and the returned
\* text has length exactly the ceiling.
C20_TruncatesToCeiling ==
    (Called("shorten_for_note") /\ Len(call.text) > call.limit) =>
        /\ call.ret = SubSeq(call.text, 1, call.limit - 3) \o T_dots
        /\ Len(call.ret) = call.limit

\* C20 as the code has it: a text whose stripped form is within the ceiling is
\* returned stripped, with no marker; for a longer one shorten_for_note returns
\* the first ceiling-3 characters of the stripped text, less the whitespace at
\* their end, followed by '...': its length is at most the ceiling, and is the
\* ceiling exactly when character ceiling-3 of the stripped text is not
\* whitespace.
C20_TruncatesWithinCeiling ==
    Called("shorten_for_note") =>
        LET t == Strip(call.text)
            L == call.limit
            r == call.ret
            n == Len(call.ret) - 3
        IN  IF Len(t) <= L THEN r = t
            ELSE /\ n \in 1..(L - 3)
                 /\ SubSeq(r, 1, n) = SubSeq(t, 1, n)
                 /\ SubSeq(r, n + 1, n + 3) = T_dots
                 /\ ~IsSpace(r[n])
                 /\ \A k \in (n + 1)..(L - 3) : IsSpace(t[k])
                 /\ Len(r) <= L
                 /\ (Len(r) = L) <=> ~IsSpace(t[L - 3])

\* a text longer than the ceiling, also when stripped, came back shorter than
\* the ceiling
C20_Witness ==
    /\ Called("shorten_for_note")
    /\ Len(Strip(call.text)) > call.limit
    /\ Len(call.ret) < call.limit
    /\ SubSeq(call.ret, Len(call.ret) - 2, Len(call.ret)) = T_dots

(***************************************************************************)
(* Which rows a run attempts.                                               *)
(***************************************************************************)
\* the run is at row i + 1 with quota left
AtRow(st) == InLoop /\ stage = st

\* the cell the run read for the row in hand
Read(col) == Get(Row, col, PyStr(Empty))

\* this step calls send_connection_message for the row in hand: the call
\* returns (the row joins attempted) or raises
CallsSend ==
    \/ attempted' = Append(attempted, i)
    \/ pc' = "idle" /\ ended' = "error" /\ ~Read("status").num /\ ~Read("last_contacted").num

\* this step goes on to the next row without calling send_connection_message
PassesOver == pc' = "loop" /\ i' = i + 1 /\ attempted' = attempted /\ sheet' = sheet

\* this step leaves the run on an exception
RaisesOnRow == pc' = "idle" /\ ended' = "error" /\ sheet' = sheet

\* C21 as stated: run_first_messages attempts a row, while quota remains, if
\* and only if its status is pending and its message1_sent is not TRUE
\* (both compared without regard to case).
C21_FirstEligibility ==
    [][AtRow("first") =>
         (CallsSend <=> /\ Lower(Read("status").text) = T_pending
                        /\ Upper(Read("message1_sent").text) # T_TRUE)]_vars

\* C21 as the code has it: run_first_messages attempts a row, while quota
\* remains, if and only if its status is a text that lowercased is pending
\* and its message1_sent, as text and uppercased, is neither TRUE nor YES;
\* on a status that was read as a number the run raises and ends; every other
\* row is passed over.
C21_FirstEligibilityYes ==
    [][AtRow("first") =>
         /\ CallsSend <=> /\ ~Read("status").num
                          /\ Lower(Read("status").text) = T_pending
                          /\ Upper(Read("message1_sent").text) \notin {T_TRUE, T_YES}
         /\ Read("status").num => RaisesOnRow
         /\ CallsSend \/ Read("status").num \/ PassesOver]_vars

\* a first-stage run has passed over a pending row whose message1_sent is yes
\* and has attempted the row after it, whose status is spelled Pending
C21_Witness ==
    /\ stage = "first"
    /\ pc # "idle"
    /\ attempted = <<1>>
    /\ StrOf(Get(records[1], "status", PyStr(Empty))) = T_pending
    /\ StrOf(Get(records[1], "message1_sent", PyStr(Empty))) = T_yes
    /\ StrOf(Get(records[2], "status", PyStr(Empty))) = T_Pending

\* the last_contacted the run read for the row in hand is the text of a
\* calendar date, and days_wait days or more lie between it and today
WaitedSince(last) ==
    /\ ~last.num
    /\ IsoValid(last.text)
    /\ ToOrdinal(today) - ToOrdinal(FromIsoFormat(last.text)) >= days_wait

\* C22: run_followups attempts a row, while quota remains, if and only if its
\* status is pending or connected, its message1_sent is TRUE, its
\* message2_sent is not TRUE (texts compared without regard to case), its
\* last_contacted parses as a calendar date and today - last_contacted is at
\* least days_wait days.
C22_FollowupEligibility ==
    [][AtRow("followup") =>
         (CallsSend <=> /\ ~Read("status").num
                        /\ Lower(Read("status").text) \in {T_pending, T_connected}
                        /\ Upper(Read("message1_sent").text) = T_TRUE
                        /\ Upper(Read("message2_sent").text) # T_TRUE
                        /\ WaitedSince(Read("last_contacted")))]_vars

\* a follow-up run with days_wait 2, started a day after the first day, has
\* passed over a row dated in the future and attempted the row after it,
\* which was last contacted two days before
C22_Witness ==
    /\ stage = "followup"
    /\ pc # "idle"
    /\ days_wait = 2
    /\ attempted = <<1>>
    /\ StrOf(Get(records[1], "last_contacted", PyStr(Empty))) = D_future
    /\ StrOf(Get(records[2], "last_contacted", PyStr(Empty))) = D_past
    /\ ToOrdinal(today) - ToOrdinal(FromIsoFormat(D_past)) = 2

\* the last_contacted read is not the text of a calendar date
NotADate(last) == last.num \/ ~IsoValid(last.text)

\* C23 as stated: a row whose last_contacted is not a valid ISO calendar date
\* (malformed text, or a cell that is not text) is passed over by
\* run_followups without being written, and the run goes on with the rows
\* after it.
C23_UnparsableIsSkipped ==
    [][(AtRow("followup") /\ ~Read("status").num /\ NotADate(Read("last_contacted")))
          => PassesOver]_vars

(***************************************************************************)
(* What an ingestion run appends.                                           *)
(***************************************************************************)
\* the rows this step appends, as rows of the sheet it leaves
Appended == (NumRows(sheet) + 1)..NumRows(sheet')

\* the stripped linkedin_url of row j of sh
Link(sh, j) == Strip(Cell(sh, j, "linkedin_url"))

\* the job URLs the sheet holds before the step
JobsBefore == {Strip(Cell(sheet, j, "job_url")) : j \in 1..NumRows(sheet)} \ {Empty}

\* the job pages the run in this step scrapes: listed, not in the sheet
\* before the run, scraped without an exception
Scraped(u) ==
    /\ \E k \in 1..Len(lastIngest'.urls) : lastIngest'.urls[k] = u
    /\ u \notin JobsBefore
    /\ ~lastIngest'.scrape[u].raises

\* C24 as stated, in the direction "appended only if": every row the run
\* appends has a non-empty linkedin_url, and neither that linkedin_url nor its
\* job_url is held by a row before it, rows appended earlier in the run
\* included.
C24_BothAbsent ==
    [][\A k \in Appended :
          /\ Link(sheet', k) # Empty
          /\ \A j \in 1..(k - 1) :
                /\ Link(sheet', j) # Link(sheet', k)
                /\ Cell(sheet', j, "job_url") # Cell(sheet', k, "job_url")]_vars

\* C24 as the code has it: the job_url is tested once per job page, against
\* the sheet as the run found it and the pages that gave a row earlier in the
\* run, not per candidate.  Every appended row comes from a candidate of a
\* scraped page, has a non-empty linkedin_url that no row before it holds
\* and the page's URL as job_url; every candidate of a scraped page with a
\* non-empty linkedin_url has that linkedin_url in the sheet after the run;
\* the rows the sheet had are as they were.
C24_LinkAbsentPageNew ==
    [][/\ \A k \in Appended :
             /\ Link(sheet', k) # Empty
             /\ \A j \in 1..(k - 1) : Link(sheet', j) # Link(sheet', k)
             /\ Scraped(Cell(sheet', k, "job_url"))
             /\ \E r \in 1..Len(lastIngest'.scrape[Cell(sheet', k, "job_url")].recs) :
                   lastIngest'.scrape[Cell(sheet', k, "job_url")].recs[r].linkedin_url
                       = Cell(sheet', k, "linkedin_url")
       /\ \A u \in JobUrls :
             Scraped(u) =>
                \A r \in 1..Len(lastIngest'.scrape[u].recs) :
                    Strip(lastIngest'.scrape[u].recs[r].linkedin_url) # Empty =>
                        \E j \in 1..NumRows(sheet') :
                            Link(sheet', j) = Strip(lastIngest'.scrape[u].recs[r].linkedin_url)
       /\ \A j \in 1..Len(sheet) : sheet'[j] = sheet[j]]_vars

\* one run on an empty sheet has appended two recruiters of the same job page
C24_Witness ==
    /\ lastIngest.runs = 1
    /\ NumRows(sheet) = 2
    /\ Cell(sheet, 1, "recruiter_name") = N_Ann
    /\ Cell(sheet, 2, "recruiter_name") = T_HiringTeam
    /\ Cell(sheet, 1, "job_url") = Cell(sheet, 2, "job_url")
    /\ Link(sheet, 1) # Link(sheet, 2)

(***************************************************************************)
(* What an outreach run may change in the sheet.                            *)
(***************************************************************************)
\* this step belongs to an outreach run (its start and its end included)
RunStep == pc # "idle" \/ pc' # "idle"

TrackingSet == {TrackingCols[c] : c \in 1..Len(TrackingCols)}

\* C25: no step of run_first_messages or run_followups deletes, reorders or
\* appends a row, and the only cells it changes are in the columns status,
\* message1_sent, message2_sent and last_contacted: the header and every
\* row's recruiter_name, job_title, company, linkedin_url, job_url and notes
\* stay as they were.
C25_OnlyTrackingColumns ==
    [][RunStep =>
         /\ Len(sheet') = Len(sheet)
         /\ sheet'[1] = sheet[1]
         /\ \A j \in 2..Len(sheet) :
               /\ Len(sheet'[j]) = Len(sheet[j])
               /\ \A c \in 1..Len(sheet[j]) :
                     sheet[1][c] \notin TrackingSet => sheet'[j][c] = sheet[j][c]]_vars

\* a first-stage run has written status, message1_sent and last_contacted of
\* its second row, and the row's other cells are the ones it read
C25_Witness ==
    /\ Updated("first")
    /\ result = "sent"
    /\ i = 1
    /\ SheetTracking(2) # ReadTracking(2)
    /\ \A c \in Columns \ TrackingSet : Cell(sheet, 2, c) = StrOf(records[2][c])
    /\ Cell(sheet, 2, "linkedin_url") = U_a

(***************************************************************************)
(* update_row, call by call.                                                *)
(***************************************************************************)
\* the value the call supplies for column name c, <<>> when it supplies none
Supplied(kw, c) ==
    IF \E a \in 1..Len(kw) : kw[a][1] = c
    THEN <<kw[CHOOSE a \in 1..Len(kw) : kw[a][1] = c][2]>>
    ELSE <<>>

\* C26: update_row(sheet, index, columns) writes each supplied column that the
\* header has into sheet row index + 2, ignores each supplied column the
\* header does not have (it returns all the same), and changes no other cell.
C26_UnknownColumnsIgnored ==
    Called("update_row") =>
        /\ Len(call.ret) = Len(call.sheet)
        /\ \A r \in 1..Len(call.sheet) :
              /\ Len(call.ret[r]) = Len(call.sheet[r])
              /\ \A c \in 1..Len(call.sheet[r]) :
                    call.ret[r][c] =
                        IF r = call.index + 2 /\ Supplied(call.kwargs, call.sheet[1][c]) # <<>>
                        THEN Supplied(call.kwargs, call.sheet[1][c])[1]
                        ELSE call.sheet[r][c]

\* a call that named a column the header lacks before one it has, and wrote
\* the latter into the second data row
C26_Witness ==
    /\ Called("update_row")
    /\ call.index = 1
    /\ Len(call.sheet[1]) = 9
    /\ call.kwargs = << <<"job_url", T_TRUE>>, <<"status", T_TRUE>> >>
    /\ call.ret[3][5] = T_TRUE
    /\ call.ret[2] = call.sheet[2]

(***************************************************************************)
(* The order of a run's attempts.                                           *)
(***************************************************************************)
\* row index k (0-based) of the snapshot passes the test of the run's stage
EligibleRead(k) == Decision(stage, records[k + 1], runToday, days_wait) = "attempt"

\* index k was attempted among the first n attempts of the run
AttemptedWithin(k, n) == \E a \in 1..n : attempted[a] = k

\* C27: within one run the rows are attempted in increasing store order, each
\* at most once; every attempted row passed the stage's test in the run's
\* snapshot, and when a row is attempted every row before it that passed the
\* test was attempted earlier in the run.
C27_StoreOrder ==
    pc # "idle" =>
        /\ \A a, b \in 1..Len(attempted) : a < b => attempted[a] < attempted[b]
        /\ \A a \in 1..Len(attempted) :
              /\ attempted[a] \in 0..(Len(records) - 1)
              /\ attempted[a] <= i
              /\ EligibleRead(attempted[a])
              /\ \A k \in 0..(attempted[a] - 1) :
                    EligibleRead(k) => AttemptedWithin(k, a - 1)
        /\ \A k \in 0..(i - 1) : EligibleRead(k) => AttemptedWithin(k, Len(attempted))

\* a follow-up run has attempted its first row, without success, and then its
\* second
C27_Witness ==
    /\ pc = "update"
    /\ stage = "followup"
    /\ attempted = <<0, 1>>
    /\ count = 0

(***************************************************************************)
(* The date of the last contact.                                            *)
(***************************************************************************)
\* this step changes the last_contacted of row j
Redated(j) == Cell(sheet', j, "last_contacted") # Cell(sheet, j, "last_contacted")

\* C28: a run writes a row's last_contacted only when the attempt for that
\* row ended in sent, and writes the run's date; after an unreachable, a
\* safety-skipped or a failed attempt the row's last_contacted is the one the
\* run read.
C28_DatedOnlyWhenSent ==
    /\ [][RunStep =>
            \A j \in 1..NumRows(sheet) :
                Redated(j) => /\ pc = "update"
                              /\ result = "sent"
                              /\ j = i + 1
                              /\ Cell(sheet', j, "last_contacted") = IsoFormat(today)]_vars
    /\ []((pc = "update" /\ result \in {"unreachable", "false"}) =>
            Cell(sheet, i + 1, "last_contacted") = ReadTracking(i + 1)[4])

\* on a later day a follow-up run has put its date in place of the older one
C28_Witness ==
    /\ pc = "update"
    /\ kwargs = <<>>
    /\ stage = "followup"
    /\ result = "sent"
    /\ today # StartDate
    /\ ReadTracking(i + 1)[4] = D_past
    /\ Cell(sheet, i + 1, "last_contacted") = IsoFormat(today)

(***************************************************************************)
(* Runs stopped from outside, and the runs after them.                      *)
(***************************************************************************)
\* C29 as stated: also when runs are stopped from outside, at whatever point,
\* and later runs of the same stage are made on the same sheet, no row has a
\* message of one stage submitted a second time.
C29_AtMostOnceWhenInterrupted ==
    interrupts > 0 =>
        \A j \in DOMAIN submitted :
            submitted[j]["first"] <= 1 /\ submitted[j]["followup"] <= 1

(***************************************************************************)
(* The stored name and the page that loads.                                 *)
(***************************************************************************)
\* C30 as stated, for pages that do not hold the stored name in their body
\* text either: for a row whose stored recruiter_name is not empty, not
\* generic and not contained in a displayed header of the profile page that
\* loads, send_connection_message returns False without going on to channel
\* discovery (no connect, message or follow action).
C30_StoredNameMismatchBlocks ==
    (AppRunning /\ pc = "discover") =>
        \/ SheetName = Empty
        \/ Lower(SheetName) \in GenericNames
        \/ HeaderMatch(page, normalize_name(SheetName))
        \/ BodyMatch(page, normalize_name(SheetName))

(***************************************************************************)
(* The order of the steps of send_connection_message.                       *)
(***************************************************************************)
\* the browser actions that reach out to the recipient
ChannelActs == {"connect", "add_note", "message", "follow", "type", "submit"}

\* verify_profile_loaded returned True for this page and name, or the name is
\* a generic placeholder and the call was not made
VerifiedOrGeneric(page_, name) ==
    \/ Lower(name) \in GenericNames
    \/ name = Empty
    \/ HeaderMatch(page_, normalize_name(name))
    \/ BodyMatch(page_, normalize_name(name))

\* C31: in send_connection_message of job_automation_app no connect, message,
\* follow or submit action is made before the identity verification has passed
\* or been skipped for a generic placeholder name: such actions are made in
\* channel discovery and in the compose step only, channel discovery is entered
\* only from the safety check with the page verified, the compose step only
\* from channel discovery with the mode note or message, a return of False at
\* the safety check has made none of those actions, and the result sent comes
\* from the compose step only.
C31_ProtocolOrder ==
    [][AppRunning =>
         /\ ((acts' \cap ChannelActs) \ acts # {}) => pc \in {"discover", "compose"}
         /\ (pc' = "discover" /\ pc # "discover") =>
               /\ pc = "loop"
               /\ acts' \cap ChannelActs = {}
               /\ VerifiedOrGeneric(page', expected_name')
         /\ (pc' = "compose" /\ pc # "compose") =>
               /\ pc = "discover"
               /\ mode' \in {"note", "message"}
         /\ (pc = "loop" /\ pc' = "update" /\ result' = "false") =>
               /\ acts' \cap ChannelActs = {}
               /\ ~VerifiedOrGeneric(page', ExpectedName(Row, page'))
         /\ (result' = "sent" /\ result # "sent") =>
               /\ pc = "compose"
               /\ mode \in {"note", "message"}
               /\ "submit" \in acts'
    ]_vars

\* a message has been submitted through the message channel, the Connect
\* button not having been clicked
C31_Witness ==
    /\ AppRunning
    /\ pc = "update"
    /\ result = "sent"
    /\ mode = "message"
    /\ {"message", "type", "submit"} \subseteq acts
    /\ "connect" \notin acts

(***************************************************************************)
(* The daily maximum of a run, whatever integer it is.                      *)
(***************************************************************************)
\* C32: in a run of run_first_messages or run_followups, of either program,
\* with the daily maximum Q, at most max(Q, 0) attempts have the outcome sent,
\* and with Q <= 0 no attempt is made at all: no row is attempted, the
\* browser does nothing and the sheet stays as it was read.
C32_SentWithinQuota ==
    pc # "idle" =>
        /\ sentRun <= (IF limits[stage] > 0 THEN limits[stage] ELSE 0)
        /\ limits[stage] <= 0 =>
              /\ attempted = <<>>
              /\ acts = {}
              /\ pc = "loop"
              /\ get_rows(sheet) = records

\* a run with the daily maximum 1 has sent one message and stands before a row
\* that passes the stage's test: it is about to stop
C32_Witness ==
    /\ pc = "loop"
    /\ limits[stage] = 1
    /\ sentRun = 1
    /\ i < Len(records)
    /\ Decision(stage, Row, today, days_wait) = "attempt"

(***************************************************************************)
(* Rows behind rows that are never sent to.                                 *)
(***************************************************************************)
\* row j of the sheet passes the test of the first stage with an empty flag
AwaitsFirst(j) ==
    /\ j <= NumRows(sheet)
    /\ Lower(Cell(sheet, j, "status")) = T_pending
    /\ Cell(sheet, j, "message1_sent") = Empty

MarkedFirst(j) ==
    /\ j <= NumRows(sheet)
    /\ Cell(sheet, j, "message1_sent") = T_TRUE

\* the attempt for row j has returned False: safety check or failed submission
ResolvedFalse(j) == pc = "update" /\ result = "false" /\ i = j - 1

C34_ConnectedIsRecorded ==
    \A j \in 1..NumRows(sheet) :
        LET row == get_rows(sheet)[j]
        IN  (~Get(row, "status", PyStr(Empty)).num /\ StrOf(Get(row, "status", PyStr(Empty))) = T_connected)
            => /\ StrOf(Get(row, "message1_sent", PyStr(Empty))) = T_TRUE
               /\ ~LastOf(row).num
               /\ LastOf(row).text # Empty
               /\ IsoValid(LastOf(row).text)

\* between runs, a connected row that has had its follow-up on a later day
C34_Witness ==
    /\ pc = "idle"
    /\ ended = "done"
    /\ \E j \in 1..NumRows(sheet) :
         /\ Cell(sheet, j, "status") = T_connected
         /\ Cell(sheet, j, "message2_sent") = T_TRUE
         /\ Cell(sheet, j, "last_contacted") = IsoFormat(today)
         /\ today # StartDate

(***************************************************************************)
(* Rows appended while an outreach run is going on.                         *)
(***************************************************************************)
\* the columns ingestion fills and no run writes
IdentityCols == {"recruiter_name", "job_title", "company", "linkedin_url", "notes", "job_url"}

\* a cell write of the outreach run (an append changes ing)
RunWrites == pc = "update" /\ sheet' # sheet /\ ing' = ing

\* C35: when run_extract_recruiters appends rows while a run of
\* run_first_messages or run_followups is going on, every cell write of the run
\* goes to sheet row i + 2, which holds the record the run read at index i and
\* attempted; no other row changes, and so no appended row is modified by the
\* run; an append leaves the rows that were there as they are.
C35_RowIdentity ==
    /\ [][RunWrites =>
            /\ Len(sheet') = Len(sheet)
            /\ i + 1 <= Len(records)
            /\ attempted # <<>> /\ attempted[Len(attempted)] = i
            /\ \A c \in IdentityCols :
                  /\ Cell(sheet', i + 1, c) = StrOf(Get(records[i + 1], c, PyStr(Empty)))
                  /\ Cell(sheet', i + 1, c) = Cell(sheet, i + 1, c)
            /\ \A r \in 1..Len(sheet) : r # i + 2 => sheet'[r] = sheet[r]
            /\ \A r \in (Len(records) + 2)..Len(sheet) : sheet'[r] = sheet[r]
      ]_vars
    /\ [][ing' # ing /\ sheet' # sheet =>
            /\ Len(sheet') = Len(sheet) + 1
            /\ \A r \in 1..Len(sheet) : sheet'[r] = sheet[r]
      ]_vars

\* a run that read one row has recorded its message for that row after a row
\* was appended behind it; the appended row is as ingestion wrote it
C35_Witness ==
    /\ pc = "update"
    /\ Len(records) = 1
    /\ NumRows(sheet) = 2
    /\ Cell(sheet, 1, "status") = T_connected
    /\ StrOf(Get(records[1], "status", PyStr(Empty))) = T_pending
    /\ Cell(sheet, 2, "status") = T_pending
    /\ Cell(sheet, 2, "message1_sent") = Empty

(***************************************************************************)
(* The end of a run.                                                        *)
(***************************************************************************)
\* C36: every run of run_first_messages and run_followups ends, the waits
\* inside its steps being bounded; the rows it attempts are rows of the
\* snapshot it read at its start, in increasing order, each at most once, so
\* that the attempts of a run are never more than the rows read.
C36_RunTerminates ==
    /\ [](pc # "idle" =>
            /\ Len(attempted) <= Len(records)
            /\ \A k \in 1..Len(attempted) : attempted[k] \in 0..(Len(records) - 1)
            /\ \A k \in 1..(Len(attempted) - 1) : attempted[k] < attempted[k + 1]
            /\ \A k \in 1..Len(attempted) : attempted[k] <= i)
    /\ (pc # "idle") ~> (pc = "idle")

\* a run has attempted both rows it read and has no row left
C36_Witness ==
    /\ pc = "loop"
    /\ Len(records) = 2
    /\ i = 2
    /\ attempted = <<0, 1>>

====
